---- MODULE Spec2Model ----
(***************************************************************************)
(* Policy evaluation engine of Agentic-Enterprise                          *)
(* (backend/apps/policy_engine): the policy store, the resolver that       *)
(* builds an evaluator's applicable list, the resource and condition       *)
(* matchers, the decision loop, the audit log and the quota counter.       *)
(*                                                                         *)
(* Python strings are sequences of one-character strings, Optional values  *)
(* are sequences of length at most one (<<>> is None), JSON values are     *)
(* records tagged with their Python type.                                  *)
(***************************************************************************)
EXTENDS Integers, Sequences, FiniteSets, TLC

VARIABLES
    policies,     \* the Policy table: policy id -> row
    agentRoles,   \* Agent.roles: agent id -> set of role ids
    now,          \* timezone.now()
    evaluators,   \* PolicyEvaluator instances: handle -> instance
    auditLog,     \* the PolicyAuditLog table, in insertion order
    agentRows,    \* the Agent table: agent id -> name and status
    sessions,     \* the AgentSession table: jti -> row
    conversations,\* the Conversation table, in insertion order
    messages,     \* the Message table, in insertion order
    invoked,      \* calls made to wrapped views and agent executors, in order
    response      \* what the last request or command answered

\* the policy engine's state, and the state of the applications around it
engine == <<policies, agentRoles, now, evaluators, auditLog>>
site == <<agentRows, sessions, conversations, messages, invoked, response>>
vars == <<engine, site>>

-----------------------------------------------------------------------------
(* Bounds of the model *)

\* the clock runs over 0..MaxTime
MaxTime == 2
\* evaluate() calls made through one evaluator instance
MaxEvals == 2
\* calls to wrapped views and agent executors that are recorded
MaxCalls == 3

-----------------------------------------------------------------------------
(* Universe *)

PolicyIds == {"p1", "p2", "p3"}
Agents == {"a1", "a2"}
Roles == {"r1", "r2"}
EvalIds == {"e1", "e2"}

None == <<>>
Some(x) == <<x>>

\* PolicyEffect
ALLOW == "ALLOW"
DENY == "DENY"
AUDIT == "AUDIT"
ESCALATE == "ESCALATE"
PolicyEffect == {ALLOW, DENY, AUDIT, ESCALATE}

\* the exceptions that reach the caller of the engine, and the error
\* responses of the views
re_error == "re.error"
DatabaseError == "DatabaseError"
ValidationError == "ValidationError"
HTTP_404_NOT_FOUND == "404 Agent not found"
HTTP_400_BAD_REQUEST == "400 Bad Request"

\* PolicyResource values and other resource strings
TOOL_ALL == <<"t", "o", "o", "l", ":", "*">>
TOOL_CRM == <<"t", "o", "o", "l", ":", "c", "r", "m">>
TOOL_EMAIL == <<"t", "o", "o", "l", ":", "e", "m", "a", "i", "l">>
AGENT_EXECUTE == <<"a", "g", "e", "n", "t", ":", "e", "x", "e", "c", "u", "t", "e">>
TOOL_GLOB == <<"t", "o", "o", "l", ":", "c", "?", "m">>
AGENT_ALL == <<"a", "g", "e", "n", "t", ":", "*">>
TOOLBOX == <<"t", "o", "o", "l", "b", "o", "x">>

-----------------------------------------------------------------------------
(* Python string helpers *)

StartsWith(s, prefix) ==
    /\ Len(prefix) <= Len(s)
    /\ SubSeq(s, 1, Len(prefix)) = prefix

EndsWith(s, suffix) ==
    /\ Len(suffix) <= Len(s)
    /\ SubSeq(s, Len(s) - Len(suffix) + 1, Len(s)) = suffix

HasChar(s, c) == \E i \in 1..Len(s) : s[i] = c

\* needle in haystack, for two strings
IsSubstring(needle, haystack) ==
    \E i \in 1..(Len(haystack) - Len(needle) + 1) :
        SubSeq(haystack, i, i + Len(needle) - 1) = needle

\* pattern.replace("*", ".*").replace("?", ".")
RECURSIVE GlobToRegex(_)
GlobToRegex(pattern) ==
    IF pattern = <<>> THEN <<>>
    ELSE LET c == Head(pattern)
             rest == GlobToRegex(Tail(pattern))
         IN  CASE c = "*" -> <<".", "*">> \o rest
               [] c = "?" -> <<".">> \o rest
               [] OTHER   -> <<c>> \o rest

\* one regex atom against one character: "." is any character
ReCharOk(c, ch) == c = "." \/ c = ch

\* re.match over the regex subset {literal, ".", "x*"}, from position i of the
\* regex and j of the string; full is the trailing "$"
RECURSIVE ReMatchAt(_, _, _, _, _)
ReMatchAt(regex, i, s, j, full) ==
    IF i > Len(regex) THEN (full => j > Len(s))
    ELSE IF i + 1 <= Len(regex) /\ regex[i + 1] = "*"
         THEN \/ ReMatchAt(regex, i + 2, s, j, full)
              \/ /\ j <= Len(s)
                 /\ ReCharOk(regex[i], s[j])
                 /\ ReMatchAt(regex, i, s, j + 1, full)
         ELSE /\ j <= Len(s)
              /\ ReCharOk(regex[i], s[j])
              /\ ReMatchAt(regex, i + 1, s, j + 1, full)

\* re.compile accepts the pattern. The patterns of the model are written with
\* literals, ".", "*", "[" and "(": a "*" with nothing to repeat, a "*" after a
\* "*", an unterminated "[" and an unterminated "(" are rejected with re.error
ReCompiles(regex) ==
    \A i \in 1..Len(regex) :
        /\ regex[i] = "*" => (i > 1 /\ regex[i - 1] # "*")
        /\ regex[i] \notin {"[", "("}

-----------------------------------------------------------------------------
(* Resource Matcher *)

\* one iteration of the loop of _resource_matches
PatternMatches(pattern, requested_resource) ==
    \/ pattern = requested_resource
    \/ /\ EndsWith(pattern, <<":", "*">>)
       /\ StartsWith(requested_resource, SubSeq(pattern, 1, Len(pattern) - 2))
    \/ /\ \E c \in {"*", "?", "["} : HasChar(pattern, c)
       /\ ReMatchAt(GlobToRegex(pattern), 1, requested_resource, 1, TRUE)

RECURSIVE _resource_matches(_, _)
_resource_matches(policy_resources, requested_resource) ==
    IF policy_resources = <<>> THEN FALSE
    ELSE IF PatternMatches(Head(policy_resources), requested_resource) THEN TRUE
    ELSE _resource_matches(Tail(policy_resources), requested_resource)

-----------------------------------------------------------------------------
(* JSON values: the context and the operands of conditions *)

VNone == [kind |-> "none", val |-> <<>>]
VNum(n) == [kind |-> "num", val |-> n]
VStr(s) == [kind |-> "str", val |-> s]
VList(l) == [kind |-> "list", val |-> l]
VDict(d) == [kind |-> "dict", val |-> d]
EmptyDict == VDict(<<>>)

DigitChars == <<"0", "1", "2", "3", "4", "5", "6", "7", "8", "9">>
IsDigit(c) == \E d \in 1..10 : DigitChars[d] = c
DigitVal(c) == (CHOOSE d \in 1..10 : DigitChars[d] = c) - 1

RECURSIVE DigitsToNum(_, _)
DigitsToNum(s, acc) ==
    IF s = <<>> THEN acc ELSE DigitsToNum(Tail(s), 10 * acc + DigitVal(Head(s)))

\* float(v): Some(number), or None where Python raises ValueError / TypeError
ToFloat(v) ==
    CASE v.kind = "num" -> Some(v.val)
      [] v.kind = "str" ->
            IF v.val # <<>> /\ \A i \in 1..Len(v.val) : IsDigit(v.val[i])
            THEN Some(DigitsToNum(v.val, 0))
            ELSE None
      [] OTHER -> None

\* a membership test that finds nothing where Python raises TypeError
PyInLenient(x, container) ==
    CASE container.kind = "str" ->
            IF x.kind # "str" THEN "F"
            ELSE IF IsSubstring(x.val, container.val) THEN "T" ELSE "F"
      [] container.kind = "list" ->
            IF \E i \in 1..Len(container.val) : container.val[i] = x THEN "T" ELSE "F"
      [] OTHER -> "F"

\* x in container, for a str or list container: "T", "F", or "E" for the
\* TypeError of 'in <string>' with a non-string left operand
PyIn(x, container) ==
    CASE container.kind = "str" ->
            IF x.kind # "str" THEN "E"
            ELSE IF IsSubstring(x.val, container.val) THEN "T" ELSE "F"
      [] container.kind = "list" ->
            IF \E i \in 1..Len(container.val) : container.val[i] = x THEN "T" ELSE "F"
      [] OTHER -> "E"

\* a <= b: "T", "F", or "E" for the TypeError of unorderable operands
PyLe(a, b) ==
    IF a.kind = "num" /\ b.kind = "num"
    THEN (IF a.val <= b.val THEN "T" ELSE "F")
    ELSE "E"

RECURSIVE NumToDigits(_)
NumToDigits(n) ==
    IF n < 10 THEN <<DigitChars[n + 1]>>
    ELSE NumToDigits(n \div 10) \o <<DigitChars[(n % 10) + 1]>>

\* repr(v) of a string without quotes or backslashes, or of a natural number
PyRepr(v) ==
    IF v.kind = "str" THEN <<"'">> \o v.val \o <<"'">> ELSE NumToDigits(v.val)

RECURSIVE JoinReprs(_)
JoinReprs(l) ==
    IF l = <<>> THEN <<>>
    ELSE IF Len(l) = 1 THEN PyRepr(l[1])
    ELSE PyRepr(l[1]) \o <<",", " ">> \o JoinReprs(Tail(l))

\* str(v) of a string, a natural number, a list of these, None or {} (no
\* request of the model has a non-empty dict where str() is applied)
PyStr(v) ==
    CASE v.kind = "str" -> v.val
      [] v.kind = "num" -> NumToDigits(v.val)
      [] v.kind = "list" -> <<"[">> \o JoinReprs(v.val) \o <<"]">>
      [] v.kind = "none" -> <<"N", "o", "n", "e">>
      [] OTHER -> <<"{", "}">>

-----------------------------------------------------------------------------
(* Condition Matcher *)

\* PolicyCondition rows: id -> (field, operator, value)
Conditions ==
    [c \in {"c_contains", "c_gt", "c_neq", "c_nested", "c_not_contains", "c_not_in",
            "c_nested_neq", "c_between", "c_regex", "c_bad_regex",
            "c_task_preview"} |->
        CASE c = "c_contains" ->
                [field |-> <<"k">>, operator |-> "contains", value |-> VStr(<<"d">>)]
          [] c = "c_gt" ->
                [field |-> <<"n">>, operator |-> "gt", value |-> VNum(1)]
          [] c = "c_neq" ->
                [field |-> <<"k">>, operator |-> "neq", value |-> VStr(<<"x">>)]
          [] c = "c_nested" ->
                [field |-> <<"r", ".", "m">>, operator |-> "eq", value |-> VStr(<<"g">>)]
          [] c = "c_not_contains" ->
                [field |-> <<"k">>, operator |-> "not_contains", value |-> VStr(<<"z">>)]
          [] c = "c_not_in" ->
                [field |-> <<"k">>, operator |-> "not_in", value |-> VList(<<VStr(<<"x">>)>>)]
          [] c = "c_nested_neq" ->
                [field |-> <<"r", ".", "m">>, operator |-> "neq", value |-> VStr(<<"g">>)]
          [] c = "c_between" ->
                [field |-> <<"n">>, operator |-> "between", value |-> VList(<<VNum(1)>>)]
          [] c = "c_regex" ->
                [field |-> <<"k">>, operator |-> "regex", value |-> VStr(<<"d", ".", "*">>)]
          [] c = "c_bad_regex" ->
                [field |-> <<"k">>, operator |-> "regex", value |-> VStr(<<"*", "d">>)]
          [] c = "c_task_preview" ->
                [field |-> <<"t", "a", "s", "k", "_", "p", "r", "e", "v", "i", "e", "w">>, operator |-> "contains",
                 value |-> VStr(<<"d", "e", "l", "e", "t", "e">>)]]

\* path.split(".")
RECURSIVE SplitDots(_, _)
SplitDots(path, cur) ==
    IF path = <<>> THEN <<cur>>
    ELSE IF Head(path) = "." THEN <<cur>> \o SplitDots(Tail(path), <<>>)
    ELSE SplitDots(Tail(path), Append(cur, Head(path)))

\* dict.get(key)
DictGet(d, key) == IF key \in DOMAIN d.val THEN d.val[key] ELSE VNone

RECURSIVE WalkKeys(_, _)
WalkKeys(value, keys) ==
    IF keys = <<>> THEN value
    ELSE IF value.kind = "dict" THEN WalkKeys(DictGet(value, Head(keys)), Tail(keys))
    ELSE VNone

_get_nested_value(data, path) == WalkKeys(data, SplitDots(path, <<>>))

_evaluate_operator(operator, left, right) ==
    CASE operator = "eq" -> left = right
      [] operator = "neq" -> left # right
      [] operator = "gt" ->
            /\ ToFloat(left) # None /\ ToFloat(right) # None
            /\ ToFloat(left)[1] > ToFloat(right)[1]
      [] operator = "lt" ->
            /\ ToFloat(left) # None /\ ToFloat(right) # None
            /\ ToFloat(left)[1] < ToFloat(right)[1]
      [] operator = "contains" ->
            IF left.kind \in {"str", "list"} THEN PyIn(right, left) = "T" ELSE FALSE
      [] operator = "not_contains" ->
            IF left.kind \in {"str", "list"} THEN PyIn(right, left) = "F" ELSE TRUE
      [] operator = "in" ->
            IF right.kind = "list" THEN PyIn(left, right) = "T" ELSE FALSE
      [] operator = "not_in" ->
            IF right.kind = "list" THEN PyIn(left, right) = "F" ELSE TRUE
      [] operator = "between" ->
            IF right.kind = "list" /\ Len(right.val) = 2
            THEN /\ PyLe(right.val[1], left) = "T"
                 /\ PyLe(left, right.val[2]) = "T"
            ELSE FALSE
      [] operator = "regex" ->
            /\ right.kind = "str"
            /\ ReCompiles(right.val)
            /\ ReMatchAt(right.val, 1, PyStr(left), 1, FALSE)
      [] OTHER -> FALSE

\* the exception that leaves _evaluate_operator, None if the call returns:
\* re.error is neither a ValueError nor a TypeError
_evaluate_operator_raises(operator, left, right) ==
    IF operator = "regex" /\ right.kind = "str" /\ ~ReCompiles(right.val)
    THEN Some(re_error)
    ELSE None

\* the lookup of the field of condition c gives None
FieldMissing(c, context) ==
    _get_nested_value(context, Conditions[c].field).kind = "none"

\* the check of condition c raises
ConditionRaises(c, context) ==
    /\ ~FieldMissing(c, context)
    /\ _evaluate_operator_raises(Conditions[c].operator,
           _get_nested_value(context, Conditions[c].field), Conditions[c].value) # None

\* the check of condition c makes _evaluate_conditions return False
ConditionFails(c, context) ==
    \/ FieldMissing(c, context)
    \/ /\ ~ConditionRaises(c, context)
       /\ ~_evaluate_operator(Conditions[c].operator,
               _get_nested_value(context, Conditions[c].field), Conditions[c].value)

\* policy.conditions.all() carries no ordering: _evaluate_conditions raises
\* when a raising condition is met before any failing one, and returns when
\* no condition raises or a failing one is met first
ConditionsMayRaise(policy, context) ==
    \E c \in policies[policy.id].conditions : ConditionRaises(c, context)

ConditionsMayReturn(policy, context) ==
    IF \A c \in policies[policy.id].conditions : ~ConditionRaises(c, context)
    THEN TRUE
    ELSE \E c \in policies[policy.id].conditions : ConditionFails(c, context)

\* the loop without the test of a missing value: None goes to the operator
_evaluate_conditions_no_none_test(policy, context) ==
    \A c \in policies[policy.id].conditions :
        _evaluate_operator(Conditions[c].operator,
            _get_nested_value(context, Conditions[c].field), Conditions[c].value)

\* a loop that returns True at the first condition that holds
_evaluate_conditions_any(policy, context) ==
    IF policies[policy.id].conditions = {} THEN TRUE
    ELSE \E c \in policies[policy.id].conditions :
            LET condition == Conditions[c]
                value == _get_nested_value(context, condition.field)
            IN  /\ value.kind # "none"
                /\ _evaluate_operator(condition.operator, value, condition.value)

\* the value _evaluate_conditions returns, when it returns: the loop over
\* policy.conditions.all(), the relation
\* being read from the store at the time of the call
_evaluate_conditions(policy, context) ==
    IF policies[policy.id].conditions = {} THEN TRUE
    ELSE \A c \in policies[policy.id].conditions :
            LET condition == Conditions[c]
                value == _get_nested_value(context, condition.field)
            IN  /\ value.kind # "none"
                /\ _evaluate_operator(condition.operator, value, condition.value)

-----------------------------------------------------------------------------
(* Policy Store *)

\* a Policy row with the field defaults of the model
DefaultPolicy(id) ==
    [id |-> id, name |-> id, resources |-> <<>>, effect |-> DENY,
     conditions |-> {}, roles |-> {}, agents |-> {}, priority |-> 0,
     valid_from |-> None, valid_until |-> None,
     max_calls |-> None, calls_made |-> 0, is_active |-> TRUE]

\* Policy.is_valid_now, t being the timezone.now() it reads; "x and ..." on an
\* Optional integer is false for None and for 0
is_valid_now(self, t) ==
    IF self.valid_from # None /\ t < self.valid_from[1] THEN FALSE
    ELSE IF self.valid_until # None /\ t > self.valid_until[1] THEN FALSE
    ELSE IF /\ self.max_calls # None /\ self.max_calls[1] # 0
            /\ self.calls_made >= self.max_calls[1] THEN FALSE
    ELSE TRUE

\* an increment that is dropped
increment_calls_dropped(self) == self

\* Policy.increment_calls on an in-memory instance: the instance afterwards
increment_calls(self) == [self EXCEPT !.calls_made = self.calls_made + 1]

\* self.save(update_fields=["calls_made"]): the table afterwards
SaveCallsMade(self) == [policies EXCEPT ![self.id].calls_made = self.calls_made]

-----------------------------------------------------------------------------
(* Policy Resolver *)

NULL == "NULL"

\* the rows of Policy LEFT JOIN policy_agents LEFT JOIN policy_roles
JoinRows ==
    { [policy |-> p, agent_id |-> a, role_id |-> r] :
        p \in PolicyIds, a \in Agents \cup {NULL}, r \in Roles \cup {NULL} }

InJoin(row) ==
    /\ IF policies[row.policy].agents = {} THEN row.agent_id = NULL
       ELSE row.agent_id \in policies[row.policy].agents
    /\ IF policies[row.policy].roles = {} THEN row.role_id = NULL
       ELSE row.role_id \in policies[row.policy].roles

\* Policy.objects.filter(Q(is_active=True), Q(agents=agent) | Q(roles__in=role_ids))
targeted(agent) ==
    { row \in JoinRows :
        /\ InJoin(row)
        /\ policies[row.policy].is_active
        /\ (row.agent_id = agent \/ row.role_id \in agentRoles[agent]) }

\* the query without its global part: only targeted policies are found
global_policies_missing == {}

\* Policy.objects.filter(is_active=True).exclude(agents__isnull=False)
\*                                      .exclude(roles__isnull=False)
global_policies ==
    { row \in JoinRows :
        /\ InJoin(row)
        /\ policies[row.policy].is_active
        /\ policies[row.policy].agents = {}
        /\ policies[row.policy].roles = {} }

\* the query without .distinct(): one row per matching join row
distinct_missing(rows) == rows

\* .distinct(): one row per policy
distinct(rows) ==
    { [policy |-> row.policy, agent_id |-> NULL, role_id |-> NULL] : row \in rows }

\* .order_by("-priority"): every order the database may return, rows of equal
\* priority in any order
RECURSIVE order_by_priority(_)
order_by_priority(rows) ==
    IF rows = {} THEN {<<>>}
    ELSE UNION { { <<first>> \o rest : rest \in order_by_priority(rows \ {first}) } :
                 first \in { x \in rows : \A y \in rows :
                     policies[x.policy].priority >= policies[y.policy].priority } }

\* [p for p in policies if p.is_valid_now()], p the instance loaded from the row
RECURSIVE LoadValid(_, _)
LoadValid(rows, t) ==
    IF rows = <<>> THEN <<>>
    ELSE LET p == policies[Head(rows).policy]
         IN  (IF is_valid_now(p, t) THEN <<p>> ELSE <<>>) \o LoadValid(Tail(rows), t)

\* the lists _get_applicable_policies may return for this agent
_get_applicable_policies(agent) ==
    { LoadValid(rows, now) :
        rows \in order_by_priority(distinct(targeted(agent) \cup global_policies)) }

-----------------------------------------------------------------------------
(* Decision Engine *)

NoPolicyFound == <<"No applicable policy found">>
AppliedReason(policy) == <<"Policy '", policy.name, "' applied with effect ", policy.effect>>

\* locals that hold no decision before the loop
InitialDecisionUnset ==
    [decision |-> "", applying |-> 0, reason |-> NoPolicyFound, examined |-> 0]

\* a fail-open default
InitialDecisionAllow ==
    [decision |-> ALLOW, applying |-> 0, reason |-> NoPolicyFound, examined |-> 0]

\* the locals of evaluate before the loop; applying is the index of
\* applying_policy in the list (0: None); examined counts the loop's iterations
InitialDecision ==
    [decision |-> DENY, applying |-> 0, reason |-> NoPolicyFound, examined |-> 0]

\* the loop without the break on DENY
RECURSIVE EvalLoopNoBreak(_, _, _, _, _)
EvalLoopNoBreak(applicable_policies, i, resource, context, acc) ==
    IF i > Len(applicable_policies) THEN acc
    ELSE LET policy == applicable_policies[i]
             skipped == [acc EXCEPT !.examined = i]
         IN  IF ~_resource_matches(policy.resources, resource)
             THEN EvalLoopNoBreak(applicable_policies, i + 1, resource, context, skipped)
             ELSE IF ~_evaluate_conditions(policy, context)
             THEN EvalLoopNoBreak(applicable_policies, i + 1, resource, context, skipped)
             ELSE EvalLoopNoBreak(applicable_policies, i + 1, resource, context,
                      [decision |-> policy.effect, applying |-> i,
                       reason |-> AppliedReason(policy), examined |-> i])

\* the loop breaking on the first policy that applies, whatever its effect
RECURSIVE EvalLoopFirstMatch(_, _, _, _, _)
EvalLoopFirstMatch(applicable_policies, i, resource, context, acc) ==
    IF i > Len(applicable_policies) THEN acc
    ELSE LET policy == applicable_policies[i]
             skipped == [acc EXCEPT !.examined = i]
         IN  IF ~_resource_matches(policy.resources, resource)
             THEN EvalLoopFirstMatch(applicable_policies, i + 1, resource, context, skipped)
             ELSE IF ~_evaluate_conditions(policy, context)
             THEN EvalLoopFirstMatch(applicable_policies, i + 1, resource, context, skipped)
             ELSE [decision |-> policy.effect, applying |-> i,
                   reason |-> AppliedReason(policy), examined |-> i]

\* the loop in which a later ALLOW / AUDIT / ESCALATE does not overwrite an
\* earlier match
RECURSIVE EvalLoopNoOverwrite(_, _, _, _, _)
EvalLoopNoOverwrite(applicable_policies, i, resource, context, acc) ==
    IF i > Len(applicable_policies) THEN acc
    ELSE LET policy == applicable_policies[i]
             skipped == [acc EXCEPT !.examined = i]
         IN  IF ~_resource_matches(policy.resources, resource)
             THEN EvalLoopNoOverwrite(applicable_policies, i + 1, resource, context, skipped)
             ELSE IF ~_evaluate_conditions(policy, context)
             THEN EvalLoopNoOverwrite(applicable_policies, i + 1, resource, context, skipped)
             ELSE LET applied == [decision |-> policy.effect, applying |-> i,
                                  reason |-> AppliedReason(policy), examined |-> i]
                  IN  IF policy.effect = DENY THEN applied
                      ELSE EvalLoopNoOverwrite(applicable_policies, i + 1, resource,
                               context, IF acc.applying = 0 THEN applied ELSE skipped)

\* the for loop of evaluate, from index i on
RECURSIVE EvalLoop(_, _, _, _, _)
EvalLoop(applicable_policies, i, resource, context, acc) ==
    IF i > Len(applicable_policies) THEN acc
    ELSE LET policy == applicable_policies[i]
             skipped == [acc EXCEPT !.examined = i]
         IN  IF ~_resource_matches(policy.resources, resource)
             THEN EvalLoop(applicable_policies, i + 1, resource, context, skipped)
             ELSE IF ~_evaluate_conditions(policy, context)
             THEN EvalLoop(applicable_policies, i + 1, resource, context, skipped)
             ELSE LET applied == [decision |-> policy.effect, applying |-> i,
                                  reason |-> AppliedReason(policy), examined |-> i]
                  IN  IF policy.effect = DENY THEN applied
                      ELSE EvalLoop(applicable_policies, i + 1, resource, context, applied)

\* an audit row that records DENY whatever was decided
AuditEntryAlwaysDeny(agent, resource, action, decision, policy, reason, request_data) ==
    [agent |-> agent, policy |-> policy, resource |-> resource, action |-> action,
     decision |-> DENY, reason |-> reason, request_data |-> request_data]

\* the row _log_decision creates
AuditEntry(agent, resource, action, decision, policy, reason, request_data) ==
    [agent |-> agent, policy |-> policy, resource |-> resource, action |-> action,
     decision |-> decision, reason |-> reason, request_data |-> request_data]

NoResult == [decision |-> "", policy |-> None, reason |-> <<>>]
NoRequest == [resource |-> <<>>, action |-> "", context |-> EmptyDict]
\* a request and its evaluator: pc is "idle" before the evaluator exists,
\* "ready" once it is constructed, "raised" after an exception left evaluate,
\* "rejected" after a view answered without constructing one; error is the
\* exception or error response the caller got
IdleEvaluator ==
    [pc |-> "idle", agent |-> NULL, applicable_policies |-> <<>>, evals |-> 0,
     request |-> NoRequest, result |-> NoResult, examined |-> 0, error |-> None]

\* the policies the loop reaches and whose conditions it evaluates can all
\* return / one of them can raise
LoopMayReturn(applicable_policies, resource, context, examined) ==
    \A i \in 1..examined :
        IF policies[applicable_policies[i].id].conditions = {} THEN TRUE
        ELSE IF ConditionsMayReturn(applicable_policies[i], context) THEN TRUE
        ELSE ~_resource_matches(applicable_policies[i].resources, resource)

LoopMayRaise(applicable_policies, resource, context, examined) ==
    \E i \in 1..examined :
        IF policies[applicable_policies[i].id].conditions = {} THEN FALSE
        ELSE IF ConditionsMayRaise(applicable_policies[i], context)
        THEN _resource_matches(applicable_policies[i].resources, resource)
        ELSE FALSE

-----------------------------------------------------------------------------
(* Operations *)

\* PolicyEvaluator(agent)
Construct(e, agent) ==
    /\ evaluators[e].pc = "idle"
    /\ \E list \in _get_applicable_policies(agent) :
          evaluators' = [evaluators EXCEPT ![e] =
              [IdleEvaluator EXCEPT !.pc = "ready", !.agent = agent,
                                    !.applicable_policies = list]]
    /\ UNCHANGED <<site, policies, agentRoles, now, auditLog>>

\* the rest of evaluate, were the audit row of the agent's previous call
\* updated in place rather than a new one created
FinishEvaluateUpdatingRow(e, resource, action, context, out) ==
    LET self == evaluators[e]
        applying_policy ==
            IF out.applying = 0 THEN None
            ELSE Some(self.applicable_policies[out.applying].id)
        entry == AuditEntry(self.agent, resource, action, out.decision,
                            applying_policy, out.reason, context)
    IN  /\ auditLog' = IF auditLog = <<>> THEN <<entry>>
                       ELSE [auditLog EXCEPT ![Len(auditLog)] = entry]
        /\ evaluators' = [evaluators EXCEPT ![e] =
              [self EXCEPT
                  !.evals = self.evals + 1,
                  !.request = [resource |-> resource, action |-> action,
                               context |-> context],
                  !.result = [decision |-> out.decision,
                              policy |-> applying_policy,
                              reason |-> out.reason],
                  !.examined = out.examined]]
        /\ UNCHANGED <<site, policies, agentRoles, now>>

\* the rest of evaluate of the evaluator self, held under handle e, once the
\* loop has left its locals in out: the audit row, the quota increment and the
\* returned tuple
EvaluateEffects(self, e, resource, action, context, out) ==
    LET applying_policy ==
            IF out.applying = 0 THEN None
            ELSE Some(self.applicable_policies[out.applying].id)
        counted == out.applying # 0 /\ out.decision \in {ALLOW, DENY}
    IN  /\ auditLog' = Append(auditLog,
              AuditEntry(self.agent, resource, action, out.decision,
                         applying_policy, out.reason, context))
        /\ \E incremented \in
                 IF counted
                 THEN {increment_calls(self.applicable_policies[out.applying])}
                 ELSE {None} :
              /\ policies' = IF counted THEN SaveCallsMade(incremented) ELSE policies
              /\ evaluators' = [evaluators EXCEPT ![e] =
                    [self EXCEPT
                        !.applicable_policies =
                            IF counted
                            THEN [self.applicable_policies
                                      EXCEPT ![out.applying] = incremented]
                            ELSE self.applicable_policies,
                        !.evals = self.evals + 1,
                        !.request = [resource |-> resource, action |-> action,
                                     context |-> context],
                        !.result = [decision |-> out.decision,
                                    policy |-> applying_policy,
                                    reason |-> out.reason],
                        !.examined = out.examined]]
        /\ UNCHANGED <<agentRoles, now>>

\* the rest of evaluate when nothing but the engine is involved
FinishEvaluate(e, resource, action, context, out) ==
    /\ EvaluateEffects(evaluators[e], e, resource, action, context, out)
    /\ UNCHANGED site

\* PolicyEvaluator(agent).evaluate(resource, action, context) returning: the
\* evaluator is built and used within one request
ConstructAndEvaluate(e, agent, resource, action, context) ==
    /\ evaluators[e].pc = "idle"
    /\ \E list \in _get_applicable_policies(agent) :
       \E out \in { EvalLoop(list, 1, resource, context, InitialDecision) } :
          /\ LoopMayReturn(list, resource, context, out.examined)
          /\ EvaluateEffects([IdleEvaluator EXCEPT !.pc = "ready", !.agent = agent,
                                                   !.applicable_policies = list],
                             e, resource, action, context, out)

\* evaluate that would resolve the agent's policies again before its loop
EvaluateResolving(e, resource, action, context) ==
    /\ evaluators[e].pc = "ready"
    /\ evaluators[e].evals < MaxEvals
    /\ \E list \in _get_applicable_policies(evaluators[e].agent) :
       \E out \in { EvalLoop(list, 1, resource, context, InitialDecision) } :
          LET counted == out.applying # 0 /\ out.decision \in {ALLOW, DENY}
              incremented == IF counted THEN increment_calls(list[out.applying])
                             ELSE None
              result == [decision |-> out.decision,
                         policy |-> IF out.applying = 0 THEN None
                                    ELSE Some(list[out.applying].id),
                         reason |-> out.reason]
          IN  /\ auditLog' = Append(auditLog,
                    AuditEntry(evaluators[e].agent, resource, action, out.decision,
                               result.policy, out.reason, context))
              /\ policies' = IF counted THEN SaveCallsMade(incremented) ELSE policies
              /\ evaluators' = [evaluators EXCEPT ![e] =
                    [@ EXCEPT
                        !.applicable_policies =
                            IF counted THEN [list EXCEPT ![out.applying] = incremented]
                            ELSE list,
                        !.evals = @ + 1,
                        !.request = [resource |-> resource, action |-> action,
                                     context |-> context],
                        !.result = result,
                        !.examined = out.examined]]
              /\ UNCHANGED <<site, agentRoles, now>>

\* evaluator.evaluate(resource, action, context), returning
Evaluate(e, resource, action, context) ==
    /\ evaluators[e].pc = "ready"
    /\ evaluators[e].evals < MaxEvals
    /\ \E out \in { EvalLoop(evaluators[e].applicable_policies, 1, resource,
                             context, InitialDecision) } :
          /\ LoopMayReturn(evaluators[e].applicable_policies, resource, context,
                           out.examined)
          /\ FinishEvaluate(e, resource, action, context, out)

\* the evaluator after an exception left evaluate
Raised(self, resource, action, context, exception) ==
    [self EXCEPT !.pc = "raised",
                 !.request = [resource |-> resource, action |-> action,
                              context |-> context],
                 !.result = NoResult,
                 !.error = Some(exception)]

\* evaluate in which a condition check raises inside the loop: nothing is
\* logged, nothing is counted, the exception reaches the caller
EvaluateConditionRaises(e, resource, action, context) ==
    /\ evaluators[e].pc = "ready"
    /\ evaluators[e].evals < MaxEvals
    /\ \E out \in { EvalLoop(evaluators[e].applicable_policies, 1, resource,
                             context, InitialDecision) } :
          LoopMayRaise(evaluators[e].applicable_policies, resource, context,
                       out.examined)
    /\ evaluators' = [evaluators EXCEPT ![e] =
          Raised(evaluators[e], resource, action, context, re_error)]
    /\ UNCHANGED <<site, policies, agentRoles, now, auditLog>>

\* evaluate in which PolicyAuditLog.objects.create raises: the call ends in
\* _log_decision, before the increment and the return
EvaluateAuditWriteFails(e, resource, action, context) ==
    /\ evaluators[e].pc = "ready"
    /\ evaluators[e].evals < MaxEvals
    /\ \E out \in { EvalLoop(evaluators[e].applicable_policies, 1, resource,
                             context, InitialDecision) } :
          /\ LoopMayReturn(evaluators[e].applicable_policies, resource, context,
                           out.examined)
          /\ evaluators' = [evaluators EXCEPT ![e] =
                [Raised(evaluators[e], resource, action, context, DatabaseError)
                    EXCEPT !.examined = out.examined]]
    /\ UNCHANGED <<site, policies, agentRoles, now, auditLog>>

\* evaluate in which the save of increment_calls raises: the audit row is
\* written, the in-memory counter is raised, the row of the policy is not
\* written and the call ends before the return
EvaluateIncrementFails(e, resource, action, context) ==
    /\ evaluators[e].pc = "ready"
    /\ evaluators[e].evals < MaxEvals
    /\ \E out \in { EvalLoop(evaluators[e].applicable_policies, 1, resource,
                             context, InitialDecision) } :
          LET self == evaluators[e]
          IN  /\ LoopMayReturn(self.applicable_policies, resource, context,
                               out.examined)
              /\ out.applying # 0
              /\ out.decision \in {ALLOW, DENY}
              /\ auditLog' = Append(auditLog,
                    AuditEntry(self.agent, resource, action, out.decision,
                               Some(self.applicable_policies[out.applying].id),
                               out.reason, context))
              /\ evaluators' = [evaluators EXCEPT ![e] =
                    [Raised(self, resource, action, context, DatabaseError)
                        EXCEPT !.examined = out.examined,
                               !.applicable_policies[out.applying] =
                                   increment_calls(self.applicable_policies[out.applying])]]
    /\ UNCHANGED <<site, policies, agentRoles, now>>

\* Agent rows: the owner of each agent; the users that send requests
Users == {"u1", "u2"}
Owner == [a \in Agents |-> IF a = "a1" THEN "u1" ELSE "u2"]

\* agent ids a request may carry: the id of an agent, a well-formed id of no
\* agent, a string that is no UUID, or none at all
UnknownAgent == "a9"
MalformedId == "not-a-uuid"
RequestAgentIds == Agents \cup {UnknownAgent, MalformedId, NULL}

\* uuid.UUID(value) succeeds
IsUUID(agent_id) == agent_id \in Agents \cup {UnknownAgent}

\* the request is answered without an evaluator; agent keeps the agent id
\* the request carried
Rejected(e, agent_id, error) ==
    /\ evaluators' = [evaluators EXCEPT ![e] =
          [IdleEvaluator EXCEPT !.pc = "rejected", !.agent = agent_id,
                                !.error = Some(error)]]
    /\ UNCHANGED <<site, policies, agentRoles, now, auditLog>>

\* PolicyCheckView.post up to the construction of the evaluator:
\* Agent.objects.get(id=agent_id, owner=request.user) raises ValidationError
\* for a string that is no UUID and DoesNotExist when no row is found
PolicyCheckView_post(e, user, agent_id) ==
    /\ evaluators[e].pc = "idle"
    /\ IF agent_id # NULL /\ ~IsUUID(agent_id)
       THEN Rejected(e, agent_id, ValidationError)
       ELSE IF agent_id \in Agents /\ Owner[agent_id] = user
       THEN Construct(e, agent_id)
       ELSE Rejected(e, agent_id, HTTP_404_NOT_FOUND)

\* the view without the replacement of the list: the evaluator keeps the list
\* its constructor resolved
PolicyViewSet_evaluate_resolved(e, pk, agent_id) ==
    /\ evaluators[e].pc = "idle"
    /\ IF ~IsUUID(agent_id)
       THEN Rejected(e, agent_id, HTTP_400_BAD_REQUEST)
       ELSE IF agent_id \in Agents
       THEN Construct(e, agent_id)
       ELSE Rejected(e, agent_id, HTTP_404_NOT_FOUND)

\* PolicyViewSet.evaluate up to the replacement of the list: the serializer
\* requires agent_id to be a UUID; the policy is the row get_object() loads,
\* whatever its state, and replaces the list the constructor resolved
PolicyViewSet_evaluate(e, pk, agent_id) ==
    /\ evaluators[e].pc = "idle"
    /\ IF ~IsUUID(agent_id)
       THEN Rejected(e, agent_id, HTTP_400_BAD_REQUEST)
       ELSE IF agent_id \in Agents
       THEN /\ evaluators' = [evaluators EXCEPT ![e] =
                  [IdleEvaluator EXCEPT !.pc = "ready", !.agent = agent_id,
                                        !.applicable_policies = <<policies[pk]>>]]
            /\ UNCHANGED <<site, policies, agentRoles, now, auditLog>>
       ELSE Rejected(e, agent_id, HTTP_404_NOT_FOUND)

\* PATCH /policies/<pk>/ with {"is_active": ...}: the model viewset saves the
\* row; calls_made is read-only in the serializer
PolicyViewSet_partial_update(pk, is_active) ==
    /\ pk \in DOMAIN policies
    /\ policies[pk].is_active # is_active
    /\ policies' = [policies EXCEPT ![pk].is_active = is_active]
    /\ UNCHANGED <<site, agentRoles, now, evaluators, auditLog>>

\* time passes
Tick ==
    /\ now < MaxTime
    /\ now' = now + 1
    /\ UNCHANGED <<site, policies, agentRoles, evaluators, auditLog>>

-----------------------------------------------------------------------------
(* The applications around the engine *)

RUNNING == "RUNNING"
PAUSED == "PAUSED"
NoResponse == [handler |-> "", status |-> 0]

\* AgentStatus default and the rows the agents start with
InitAgentRows == [a \in Agents |-> [name |-> a, status |-> RUNNING]]

\* nothing has been requested yet
InitSite ==
    /\ agentRows = InitAgentRows
    /\ sessions = <<>>
    /\ conversations = <<>>
    /\ messages = <<>>
    /\ invoked = <<>>
    /\ response = NoResponse

(* Agent registry *)

ERRORED == "ERRORED"
HTTP_200_OK == 200
HTTP_403_FORBIDDEN == 403
SAFE_METHODS == {"GET", "HEAD", "OPTIONS"}

\* a permission that lets every request through
has_object_permission_any(method, user, obj) == TRUE

\* IsOwnerOrReadOnly.has_object_permission
has_object_permission(method, user, obj) ==
    IF method \in SAFE_METHODS THEN TRUE ELSE Owner[obj] = user

\* what a request on /agents/<pk>/... by this user answered
AgentResponse(handler, method, user, pk, status) ==
    [handler |-> handler, method |-> method, user |-> user, pk |-> pk,
     status |-> status]

\* the request leaves every table as it is
Answer(r) ==
    /\ response' = r
    /\ UNCHANGED <<engine, agentRows, sessions, conversations, messages, invoked>>

\* GET /agents/<pk>/
AgentViewSet_retrieve(user, pk) ==
    /\ has_object_permission("GET", user, pk)
    /\ Answer(AgentResponse("retrieve", "GET", user, pk, HTTP_200_OK))

\* PATCH /agents/<pk>/: data holds the fields sent, among name, status and
\* role_ids; get_object() checks the permission before the serializer saves
AgentViewSet_partial_update(user, pk, data) ==
    IF ~has_object_permission("PATCH", user, pk)
    THEN Answer(AgentResponse("partial_update", "PATCH", user, pk, HTTP_403_FORBIDDEN))
    ELSE /\ agentRows' = [agentRows EXCEPT ![pk] =
                [name |-> IF "name" \in DOMAIN data THEN data["name"] ELSE @.name,
                 status |-> IF "status" \in DOMAIN data THEN data["status"]
                            ELSE @.status]]
         /\ agentRoles' = [agentRoles EXCEPT ![pk] =
                IF "role_ids" \in DOMAIN data THEN data["role_ids"] ELSE @]
         /\ response' = AgentResponse("partial_update", "PATCH", user, pk, HTTP_200_OK)
         /\ UNCHANGED <<policies, now, evaluators, auditLog>>
         /\ UNCHANGED <<sessions, conversations, messages, invoked>>

\* AgentViewSet.pause: POST /agents/<pk>/pause/
AgentViewSet_pause(user, pk) ==
    IF ~has_object_permission("POST", user, pk)
    THEN Answer(AgentResponse("pause", "POST", user, pk, HTTP_403_FORBIDDEN))
    ELSE IF Owner[pk] # user
    THEN Answer(AgentResponse("pause", "POST", user, pk, HTTP_403_FORBIDDEN))
    ELSE /\ agentRows' = [agentRows EXCEPT ![pk].status = PAUSED]
         /\ response' = AgentResponse("pause", "POST", user, pk, HTTP_200_OK)
         /\ UNCHANGED <<engine, sessions, conversations, messages, invoked>>

\* AgentViewSet.resume: POST /agents/<pk>/resume/
AgentViewSet_resume(user, pk) ==
    IF ~has_object_permission("POST", user, pk)
    THEN Answer(AgentResponse("resume", "POST", user, pk, HTTP_403_FORBIDDEN))
    ELSE IF Owner[pk] # user
    THEN Answer(AgentResponse("resume", "POST", user, pk, HTTP_403_FORBIDDEN))
    ELSE /\ agentRows' = [agentRows EXCEPT ![pk].status = RUNNING]
         /\ response' = AgentResponse("resume", "POST", user, pk, HTTP_200_OK)
         /\ UNCHANGED <<engine, sessions, conversations, messages, invoked>>

\* the bodies a PATCH may carry
PatchData ==
    { ("name" :> "Hacked"), ("status" :> ERRORED), ("role_ids" :> {"r1"}),
      ("name" :> "Worker") @@ ("status" :> PAUSED) }

InitAgents ==
    /\ \E s1 \in {RUNNING, PAUSED}, s2 \in {RUNNING, ERRORED} :
          agentRows = [a \in Agents |->
              [name |-> a, status |-> IF a = "a1" THEN s1 ELSE s2]]
    /\ sessions = <<>>
    /\ conversations = <<>>
    /\ messages = <<>>
    /\ invoked = <<>>
    /\ response = NoResponse
    /\ policies = [p \in PolicyIds |-> DefaultPolicy(p)]
    /\ agentRoles = [a \in Agents |-> {}]
    /\ now = 0
    /\ evaluators = [e \in EvalIds |-> IdleEvaluator]
    /\ auditLog = <<>>

NextAgents ==
    \/ \E user \in Users, pk \in Agents : AgentViewSet_retrieve(user, pk)
    \/ \E user \in Users, pk \in Agents, data \in PatchData :
          AgentViewSet_partial_update(user, pk, data)
    \/ \E user \in Users, pk \in Agents : AgentViewSet_pause(user, pk)
    \/ \E user \in Users, pk \in Agents : AgentViewSet_resume(user, pk)

SpecAgents == InitAgents /\ [][NextAgents]_vars

-----------------------------------------------------------------------------
(* Requests *)

CtxDelete == VDict(<<"k">> :> VStr(<<"d", "e", "l">>))
CtxRead == VDict(<<"k">> :> VStr(<<"r">>))
CtxX == VDict(<<"k">> :> VStr(<<"x">>))
\* "r" is no mapping, "n" is no number
CtxFlat == VDict(<<"r">> :> VStr(<<"x">>) @@ <<"n">> :> VStr(<<"a", "b", "c">>))
CtxNested == VDict(<<"r">> :> VDict(<<"m">> :> VStr(<<"h">>)) @@ <<"n">> :> VNum(5))

IdleEvaluators == [e \in EvalIds |-> IdleEvaluator]

-----------------------------------------------------------------------------
(* manage.py default_policies *)

WORKFLOW_EXECUTE ==
    <<"w", "o", "r", "k", "f", "l", "o", "w", ":", "e", "x", "e", "c", "u", "t", "e">>
WORKFLOW_CREATE ==
    <<"w", "o", "r", "k", "f", "l", "o", "w", ":", "c", "r", "e", "a", "t", "e">>

DEFAULT_POLICIES ==
    << [name |-> "Global Allow - Agent Execution", resources |-> <<AGENT_EXECUTE>>,
        effect |-> ALLOW, priority |-> 0, is_active |-> TRUE],
       [name |-> "Global Allow - Tool Access", resources |-> <<TOOL_ALL>>,
        effect |-> ALLOW, priority |-> 0, is_active |-> TRUE],
       [name |-> "Global Allow - Workflow Execution",
        resources |-> <<WORKFLOW_EXECUTE, WORKFLOW_CREATE>>,
        effect |-> ALLOW, priority |-> 0, is_active |-> TRUE] >>

\* --env choices
Envs == {"development", "staging", "production"}

\* primary keys uuid4 may draw
SeedIds == PolicyIds \cup {"p4"}

\* the row Policy.objects.create(**defaults) inserts under primary key id
CreatedRow(id, policy_data) ==
    [DefaultPolicy(id) EXCEPT !.name = policy_data.name,
                              !.resources = policy_data.resources,
                              !.effect = policy_data.effect,
                              !.priority = policy_data.priority,
                              !.is_active = policy_data.is_active]

\* the primary keys of the rows of that name
RowsNamed(table, name) == { pk \in DOMAIN table : table[pk].name = name }

\* Policy.objects.update_or_create(name=..., defaults=...)
update_or_create(table, policy_data, id) ==
    IF RowsNamed(table, policy_data.name) # {}
    THEN [pk \in DOMAIN table |->
            IF table[pk].name = policy_data.name
            THEN [table[pk] EXCEPT !.resources = policy_data.resources,
                                   !.effect = policy_data.effect,
                                   !.priority = policy_data.priority,
                                   !.is_active = policy_data.is_active]
            ELSE table[pk]]
    ELSE table @@ (id :> CreatedRow(id, policy_data))

\* Policy.objects.get_or_create(name=..., defaults=...): the table afterwards,
\* id being the primary key a created row gets
get_or_create(table, policy_data, id) ==
    IF RowsNamed(table, policy_data.name) # {} THEN table
    ELSE table @@ (id :> CreatedRow(id, policy_data))

\* the loop of handle from DEFAULT_POLICIES[i] on: the table and created_count
\* it ends with; ids gives the primary key drawn for each name that is created
RECURSIVE SeedFrom(_, _, _, _)
SeedFrom(table, created_count, i, ids) ==
    IF i > Len(DEFAULT_POLICIES) THEN [table |-> table, created_count |-> created_count]
    ELSE LET policy_data == DEFAULT_POLICIES[i]
             created == RowsNamed(table, policy_data.name) = {}
         IN  SeedFrom(IF created
                      THEN get_or_create(table, policy_data, ids[policy_data.name])
                      ELSE get_or_create(table, policy_data, NULL),
                      IF created THEN created_count + 1 ELSE created_count,
                      i + 1, ids)

DefaultNames == { DEFAULT_POLICIES[i].name : i \in 1..Len(DEFAULT_POLICIES) }
MissingNames(table) == { name \in DefaultNames : RowsNamed(table, name) = {} }

\* the primary keys the creations of one run may draw: distinct and unused
FreshIds(table) ==
    { ids \in [MissingNames(table) -> SeedIds \ DOMAIN table] :
        \A m, n \in MissingNames(table) : m # n => ids[m] # ids[n] }

\* every outcome one non-production run may have on this table
SeedResults(table) == { SeedFrom(table, 0, 1, ids) : ids \in FreshIds(table) }

\* Command.handle(env=env)
Command_handle(env) ==
    /\ IF env = "production"
       THEN /\ policies' = policies
            /\ response' = [handler |-> "default_policies", env |-> env,
                            created_count |-> 0, skipped |-> TRUE]
       ELSE \E seeded \in SeedResults(policies) :
               /\ policies' = seeded.table
               /\ response' = [handler |-> "default_policies", env |-> env,
                               created_count |-> seeded.created_count,
                               skipped |-> FALSE]
    /\ UNCHANGED <<agentRoles, now, evaluators, auditLog>>
    /\ UNCHANGED <<agentRows, sessions, conversations, messages, invoked>>

\* DELETE /policies/<pk>/: the row goes, audit entries that named it keep
\* their other fields (on_delete=SET_NULL)
PolicyViewSet_destroy(pk) ==
    /\ pk \in DOMAIN policies
    /\ policies' = [k \in DOMAIN policies \ {pk} |-> policies[k]]
    /\ auditLog' = [i \in 1..Len(auditLog) |->
                      IF auditLog[i].policy = Some(pk)
                      THEN [auditLog[i] EXCEPT !.policy = None]
                      ELSE auditLog[i]]
    /\ UNCHANGED <<site, agentRoles, now, evaluators>>

\* a store in which each default name is absent, present as seeded, or present
\* after an administrator edited it, next to a policy of another name or none
SeedRowKinds == {"absent", "seeded", "edited"}

SeedRow(id, i, kind) ==
    IF kind = "seeded" THEN CreatedRow(id, DEFAULT_POLICIES[i])
    ELSE [CreatedRow(id, DEFAULT_POLICIES[i]) EXCEPT !.effect = DENY,
                                                     !.priority = 9]

InitSeed ==
    /\ InitSite
    /\ \E k1 \in SeedRowKinds, k2 \in SeedRowKinds, custom \in BOOLEAN :
          policies =
              (IF k1 = "absent" THEN <<>> ELSE ("p1" :> SeedRow("p1", 1, k1)))
              @@ (IF k2 = "absent" THEN <<>> ELSE ("p2" :> SeedRow("p2", 2, k2)))
              @@ (IF custom
                  THEN ("p3" :> [DefaultPolicy("p3") EXCEPT !.resources = <<TOOL_CRM>>])
                  ELSE <<>>)
    /\ agentRoles = [a \in Agents |-> {}]
    /\ now = 0
    /\ evaluators = IdleEvaluators
    /\ auditLog = <<>>

NextSeed ==
    \/ \E env \in Envs : Command_handle(env)
    \/ \E pk \in SeedIds : PolicyViewSet_destroy(pk)
    \/ \E pk \in SeedIds, is_active \in BOOLEAN :
          PolicyViewSet_partial_update(pk, is_active)

SpecSeed == InitSeed /\ [][NextSeed]_vars

-----------------------------------------------------------------------------
(* The operator test on its own, over operands of every JSON type           *)

PLEASE_DELETE == <<"p", "l", "e", "a", "s", "e", " ", "d", "e", "l", "e", "t", "e", " ", "t", "h", "e", " ", "f", "i", "l", "e">>
READ_ONLY == <<"r", "e", "a", "d", " ", "o", "n", "l", "y">>
DELETE == <<"d", "e", "l", "e", "t", "e">>

OperatorLefts ==
    { VStr(PLEASE_DELETE), VStr(READ_ONLY), VStr(<<>>), VStr(<<"5">>),
      VList(<<>>), VList(<<VStr(DELETE)>>), VList(<<VNum(5), VStr(<<"z">>)>>),
      VNum(5), EmptyDict, VDict(<<"d">> :> VNum(5)) }

OperatorRights ==
    { VStr(DELETE), VStr(<<"z">>), VStr(<<>>), VStr(<<"5">>), VNum(5),
      VList(<<>>), EmptyDict }

\* self._evaluate_operator(operator, left, right), the call and what it returned
EvaluateOperator(operator, left, right) ==
    /\ _evaluate_operator_raises(operator, left, right) = None
    /\ response' = [handler |-> "_evaluate_operator", operator |-> operator,
                    left |-> left, right |-> right,
                    value |-> _evaluate_operator(operator, left, right)]
    /\ UNCHANGED <<engine, agentRows, sessions, conversations, messages, invoked>>

InitOperators ==
    /\ InitSite
    /\ policies = [p \in PolicyIds |-> DefaultPolicy(p)]
    /\ agentRoles = [a \in Agents |-> {}]
    /\ now = 0
    /\ evaluators = IdleEvaluators
    /\ auditLog = <<>>

NextOperators ==
    \E operator \in {"contains", "not_contains"},
       left \in OperatorLefts, right \in OperatorRights :
        EvaluateOperator(operator, left, right)

SpecOperators == InitOperators /\ [][NextOperators]_vars

-----------------------------------------------------------------------------
(* The enforce_policy decorator around a view                               *)

PermissionDenied == "PermissionDenied"
GatePath == <<"/", "c", "r", "m">>
CtxMethod == <<"m", "e", "t", "h", "o", "d">>
CtxPath == <<"p", "a", "t", "h">>
CtxQueryParams == <<"q", "u", "e", "r", "y", "_", "p", "a", "r", "a", "m", "s">>
CtxRequest == <<"r", "e", "q", "u", "e", "s", "t">>
CtxView == <<"v", "i", "e", "w">>
ViewName == <<"m", "y", "_", "v", "i", "e", "w">>

\* requests as the authentication classes leave them: AgentAuthentication
\* sets user to the agent and auth to the token, session authentication sets
\* user to a user
GateRequests ==
    { [auth |-> "token", user |-> "a1", method |-> "GET", path |-> GatePath],
      [auth |-> "a2", user |-> "u2", method |-> "GET", path |-> GatePath],
      [auth |-> NULL, user |-> "u1", method |-> "GET", path |-> GatePath] }

\* the agent the wrapper finds on the request, NULL if it finds none
GateAgent(request) ==
    IF request.auth \in Agents THEN request.auth
    ELSE IF request.user \in Agents THEN request.user
    ELSE NULL

\* method.lower() of the methods of the model
Lower(method) == IF method = "GET" THEN "get" ELSE "post"

\* the context the wrapper passes to evaluate
GateContext(request) ==
    VDict(CtxRequest :> VDict(CtxMethod :> VStr(<<request.method>>)
                              @@ CtxPath :> VStr(request.path)
                              @@ CtxQueryParams :> EmptyDict)
          @@ CtxView :> VStr(ViewName))

\* view_func(request): the call is recorded, its answer returned
CallView(request, decision) ==
    /\ invoked' = Append(invoked, [callee |-> "view_func", user |-> request.user])
    /\ response' = [handler |-> "enforce_policy", request |-> request,
                    decision |-> decision, raised |-> None, status |-> HTTP_200_OK]

\* a wrapper that lets only ALLOW and AUDIT through
wrapper_strict(e, request, resource, action) ==
    /\ Len(invoked) < MaxCalls
    /\ UNCHANGED <<agentRows, sessions, conversations, messages>>
    /\ IF GateAgent(request) = NULL
       THEN CallView(request, None) /\ UNCHANGED engine
       ELSE /\ ConstructAndEvaluate(e, GateAgent(request),
                   IF resource # None THEN resource[1] ELSE request.path,
                   IF action # None THEN action[1] ELSE Lower(request.method),
                   GateContext(request))
            /\ LET decision == evaluators'[e].result.decision
               IN  IF decision \in {DENY, ESCALATE}
                   THEN /\ invoked' = invoked
                        /\ response' = [handler |-> "enforce_policy",
                                        request |-> request,
                                        decision |-> Some(decision),
                                        raised |-> Some(PermissionDenied),
                                        status |-> HTTP_403_FORBIDDEN]
                   ELSE CallView(request, Some(decision))

\* enforce_policy(resource, action)(view_func)(request)
wrapper(e, request, resource, action) ==
    /\ Len(invoked) < MaxCalls
    /\ UNCHANGED <<agentRows, sessions, conversations, messages>>
    /\ IF GateAgent(request) = NULL
       THEN CallView(request, None) /\ UNCHANGED engine
       ELSE /\ ConstructAndEvaluate(e, GateAgent(request),
                   IF resource # None THEN resource[1] ELSE request.path,
                   IF action # None THEN action[1] ELSE Lower(request.method),
                   GateContext(request))
            /\ LET decision == evaluators'[e].result.decision
               IN  IF decision = DENY
                   THEN /\ invoked' = invoked
                        /\ response' = [handler |-> "enforce_policy",
                                        request |-> request,
                                        decision |-> Some(decision),
                                        raised |-> Some(PermissionDenied),
                                        status |-> HTTP_403_FORBIDDEN]
                   ELSE CallView(request, Some(decision))

\* the decorator's arguments: a resource or none, an action or none
GateResources == {Some(TOOL_CRM), None}
GateActions == {Some("read"), None}

InitGate ==
    /\ InitSite
    /\ \E f1 \in PolicyEffect, f2 \in PolicyEffect, max \in {None, Some(1)} :
          policies = [p \in PolicyIds |->
              CASE p = "p1" ->
                     [DefaultPolicy(p) EXCEPT !.effect = f1, !.priority = 1,
                          !.resources = <<TOOL_ALL>>, !.max_calls = max]
                [] p = "p2" ->
                     [DefaultPolicy(p) EXCEPT !.effect = f2, !.priority = 5,
                          !.resources = <<TOOL_CRM, GatePath>>, !.agents = {"a1"}]
                [] OTHER ->
                     [DefaultPolicy(p) EXCEPT !.is_active = FALSE]]
    /\ agentRoles = [a \in Agents |-> {}]
    /\ now = 0
    /\ evaluators = IdleEvaluators
    /\ auditLog = <<>>

NextGate ==
    \E e \in EvalIds, request \in GateRequests,
       resource \in GateResources, action \in GateActions :
        wrapper(e, request, resource, action)

SpecGate == InitGate /\ [][NextGate]_vars

-----------------------------------------------------------------------------
(* Agent execution behind the policy check                                  *)

HTTP_500_INTERNAL_SERVER_ERROR == 500
TASK_PREVIEW == <<"t", "a", "s", "k", "_", "p", "r", "e", "v", "i", "e", "w">>
CONVERSATION_ID == <<"c", "o", "n", "v", "e", "r", "s", "a", "t", "i", "o", "n", "_", "i", "d">>

\* the agents that have an AgentCapability row
Capable == {"a1"}

\* s[:n]
Slice(s, n) == SubSeq(s, 1, IF Len(s) < n THEN Len(s) ELSE n)

\* a comparison with the wrong spelling of the effect
IsDenyLower(decision) == decision = "deny"

\* decision == "DENY"
IsDeny(decision) == decision = DENY

\* what an execution endpoint answered; decision is None when no policy
\* check was made
ExecResponse(handler, user, status, decision) ==
    [handler |-> handler, user |-> user, status |-> status, decision |-> decision]

\* the tables after executor.invoke and what follows it, from the tables left
\* by the writes before it: the reply is stored on success; failed is the
\* status a failing run leaves on conversation c, None if it leaves none
RunExecutor(handler, user, agent, decision, c, convs, msgs, ok, done, failed) ==
    /\ invoked' = Append(invoked, [callee |-> "executor", user |-> agent])
    /\ IF ok
       THEN /\ messages' = Append(msgs, [conversation |-> c, role |-> "AGENT"])
            /\ conversations' = [convs EXCEPT ![c].status = done]
            /\ response' = ExecResponse(handler, user, HTTP_200_OK, Some(decision))
       ELSE /\ messages' = msgs
            /\ conversations' =
                  IF failed = None THEN convs ELSE [convs EXCEPT ![c].status = failed[1]]
            /\ response' = ExecResponse(handler, user, HTTP_500_INTERNAL_SERVER_ERROR,
                                        Some(decision))

\* AgentExecuteView.post with a valid body
AgentExecuteView_post(e, user, agent_id, task) ==
    /\ UNCHANGED <<agentRows, sessions>>
    /\ IF agent_id \notin Agents \/ Owner[agent_id] # user
       THEN /\ response' = ExecResponse("execute", user, HTTP_404_NOT_FOUND, None)
            /\ UNCHANGED <<engine, conversations, messages, invoked>>
       ELSE /\ ConstructAndEvaluate(e, agent_id, AGENT_EXECUTE, "task",
                   VDict(TASK_PREVIEW :> VStr(Slice(task, 100))))
            /\ \E decision \in {evaluators'[e].result.decision}, ok \in BOOLEAN :
                  IF IsDeny(decision)
                  THEN /\ response' = ExecResponse("execute", user,
                                          HTTP_403_FORBIDDEN, Some(decision))
                       /\ UNCHANGED <<conversations, messages, invoked>>
                  ELSE IF agent_id \notin Capable
                  THEN /\ response' = ExecResponse("execute", user,
                                          HTTP_400_BAD_REQUEST, Some(decision))
                       /\ UNCHANGED <<conversations, messages, invoked>>
                  ELSE LET c == Len(conversations) + 1
                       IN  RunExecutor("execute", user, agent_id, decision, c,
                               Append(conversations,
                                      [agent |-> agent_id, status |-> "ACTIVE"]),
                               Append(messages, [conversation |-> c, role |-> "USER"]),
                               ok, "COMPLETED", Some("FAILED"))

\* ConversationViewSet.message on conversation pk
ConversationViewSet_message(e, user, pk, content) ==
    /\ UNCHANGED <<agentRows, sessions>>
    /\ IF pk \notin DOMAIN conversations \/ Owner[conversations[pk].agent] # user
       THEN /\ response' = ExecResponse("message", user, HTTP_404_NOT_FOUND, None)
            /\ UNCHANGED <<engine, conversations, messages, invoked>>
       ELSE /\ ConstructAndEvaluate(e, conversations[pk].agent, AGENT_EXECUTE,
                   "chat", VDict(CONVERSATION_ID :> VStr(NumToDigits(pk))))
            /\ \E decision \in {evaluators'[e].result.decision}, ok \in BOOLEAN,
                  agent \in {conversations[pk].agent} :
                      IF IsDeny(decision)
                      THEN /\ response' = ExecResponse("message", user,
                                              HTTP_403_FORBIDDEN, Some(decision))
                           /\ UNCHANGED <<conversations, messages, invoked>>
                      ELSE IF content = <<>> \/ agent \notin Capable
                      THEN /\ response' = ExecResponse("message", user,
                                              HTTP_400_BAD_REQUEST, Some(decision))
                           /\ UNCHANGED <<conversations, messages, invoked>>
                      ELSE RunExecutor("message", user, agent, decision, pk, conversations,
                               Append(messages, [conversation |-> pk, role |-> "USER"]),
                               ok, conversations[pk].status, None)

InitExec ==
    /\ agentRows = InitAgentRows
    /\ sessions = <<>>
    /\ \E started \in BOOLEAN :
          /\ conversations =
                IF started THEN <<[agent |-> "a1", status |-> "ACTIVE"]>> ELSE <<>>
          /\ messages = <<>>
    /\ invoked = <<>>
    /\ response = NoResponse
    /\ \E f1 \in {ALLOW, AUDIT}, f2 \in {DENY, ESCALATE}, max \in {None, Some(1)} :
          policies = [p \in PolicyIds |->
              CASE p = "p1" ->
                     [DefaultPolicy(p) EXCEPT !.effect = f1, !.priority = 0,
                          !.resources = <<AGENT_EXECUTE>>, !.max_calls = max]
                [] p = "p2" ->
                     [DefaultPolicy(p) EXCEPT !.effect = f2, !.priority = 5,
                          !.resources = <<AGENT_ALL>>,
                          !.conditions = {"c_task_preview"}]
                [] OTHER ->
                     [DefaultPolicy(p) EXCEPT !.effect = ALLOW,
                          !.resources = <<TOOL_ALL>>]]
    /\ agentRoles = [a \in Agents |-> {}]
    /\ now = 0
    /\ evaluators = IdleEvaluators
    /\ auditLog = <<>>

NextExec ==
    \/ \E e \in EvalIds, user \in Users, agent_id \in Agents \cup {UnknownAgent},
          task \in {PLEASE_DELETE, READ_ONLY} :
          AgentExecuteView_post(e, user, agent_id, task)
    \/ \E e \in EvalIds, user \in Users, pk \in 1..2, content \in {<<>>, READ_ONLY} :
          ConversationViewSet_message(e, user, pk, content)

SpecExec == InitExec /\ [][NextExec]_vars

-----------------------------------------------------------------------------
(* Agent gateway: sessions, JWT authentication, logout                      *)

HTTP_401_UNAUTHORIZED == 401
\* timedelta(hours=1), the clock of the model counting hours
SessionHours == 1

\* the jti values uuid4 may draw
Jtis == {"j1", "j2"}

\* Agent.identity_key
IdentityKey == [a \in Agents |-> IF a = "a1" THEN "key-a1" ELSE "key-a2"]

\* what the gateway answered to a request about this jti or agent
GatewayResponse(handler, subject, status) ==
    [handler |-> handler, subject |-> subject, status |-> status]

\* AgentLoginView.post
AgentLoginView_post(agent_id, identity_key) ==
    /\ UNCHANGED <<engine, agentRows, conversations, messages, invoked>>
    /\ IF agent_id \notin Agents \/ IdentityKey[agent_id] # identity_key
       THEN /\ response' = GatewayResponse("login", agent_id, HTTP_401_UNAUTHORIZED)
            /\ sessions' = sessions
       ELSE \E jti \in Jtis \ DOMAIN sessions :
               /\ sessions' = sessions @@
                     (jti :> [agent |-> agent_id, expires_at |-> now + SessionHours,
                              revoked_at |-> None, last_activity |-> now])
               /\ response' = GatewayResponse("login", agent_id, HTTP_200_OK)

\* a lookup by jti alone
_authenticate_jwt_by_jti(jti) ==
    IF jti \in DOMAIN sessions /\ sessions[jti].expires_at > now
    THEN Some(sessions[jti].agent)
    ELSE None

\* AgentAuthentication._authenticate_jwt for a token that carries this jti:
\* the agent of the session, or None where AuthenticationFailed is raised
_authenticate_jwt(jti) ==
    IF /\ jti \in DOMAIN sessions
       /\ sessions[jti].revoked_at = None
       /\ sessions[jti].expires_at > now
    THEN Some(sessions[jti].agent)
    ELSE None

\* jwt.decode accepts the token of the session: its exp claim, the session's
\* expires_at, lies ahead
DecodeSucceeds(jti) == jti \in DOMAIN sessions => sessions[jti].expires_at > now

\* AgentAuthentication.authenticate for "Bearer <token>": an expired token is
\* tried as an identity key, which it is not
authenticate(jti) ==
    IF DecodeSucceeds(jti) THEN _authenticate_jwt(jti) ELSE None

\* the table after session.save(update_fields=['last_activity'])
Touched(jti) == [sessions EXCEPT ![jti].last_activity = now]

\* a request to any endpoint that authenticates with the session's token
AgentAuthentication_authenticate(jti) ==
    /\ UNCHANGED <<engine, agentRows, conversations, messages, invoked>>
    /\ IF authenticate(jti) = None
       THEN /\ response' = GatewayResponse("authenticate", jti, HTTP_401_UNAUTHORIZED)
            /\ sessions' = sessions
       ELSE /\ response' = GatewayResponse("authenticate", jti, HTTP_200_OK)
            /\ sessions' = Touched(jti)

\* AgentLogoutView.post, after its authentication class
AgentLogoutView_post(jti) ==
    /\ UNCHANGED <<engine, agentRows, conversations, messages, invoked>>
    /\ IF authenticate(jti) = None
       THEN /\ response' = GatewayResponse("logout", jti, HTTP_401_UNAUTHORIZED)
            /\ sessions' = sessions
       ELSE /\ response' = GatewayResponse("logout", jti, HTTP_200_OK)
            /\ sessions' = [Touched(jti) EXCEPT ![jti].revoked_at = Some(now)]

InitGateway ==
    /\ InitSite
    /\ policies = [p \in PolicyIds |-> DefaultPolicy(p)]
    /\ agentRoles = [a \in Agents |-> {}]
    /\ now = 0
    /\ evaluators = IdleEvaluators
    /\ auditLog = <<>>

NextGateway ==
    \/ \E agent_id \in Agents \cup {UnknownAgent}, identity_key \in {"key-a1", "key-a2"} :
          AgentLoginView_post(agent_id, identity_key)
    \/ \E jti \in Jtis : AgentAuthentication_authenticate(jti)
    \/ \E jti \in Jtis : AgentLogoutView_post(jti)
    \/ Tick

SpecGateway == InitGateway /\ [][NextGateway]_vars

-----------------------------------------------------------------------------
(* Decision engine over a store of global, unlimited policies that differ in *)
(* effect, priority, resource patterns and conditions                       *)

EvalMatchKinds ==
    { [resources |-> <<TOOL_ALL>>, conditions |-> {}],
      [resources |-> <<AGENT_EXECUTE, TOOL_CRM>>, conditions |-> {"c_contains"}],
      [resources |-> <<AGENT_EXECUTE>>, conditions |-> {}] }

EvalPolicy(id, effect, priority, kind) ==
    [DefaultPolicy(id) EXCEPT !.effect = effect, !.priority = priority,
                              !.resources = kind.resources,
                              !.conditions = kind.conditions]

InitEval ==
    /\ InitSite
    /\ \E f1 \in PolicyEffect, f2 \in PolicyEffect, f3 \in {ALLOW, DENY},
          q1 \in {5, 10}, q2 \in {5, 10},
          k1 \in EvalMatchKinds, k2 \in EvalMatchKinds :
          policies = [p \in PolicyIds |->
              CASE p = "p1" -> EvalPolicy(p, f1, q1, k1)
                [] p = "p2" -> EvalPolicy(p, f2, q2, k2)
                [] OTHER    -> EvalPolicy(p, f3, 7, [resources |-> <<TOOL_GLOB>>, conditions |-> {}])]
    /\ agentRoles = [a \in Agents |-> IF a = "a1" THEN {"r1"} ELSE {}]
    /\ now = 0
    /\ evaluators = IdleEvaluators
    /\ auditLog = <<>>

NextEval ==
    \/ Construct("e1", "a1")
    \/ \E resource \in {TOOL_CRM, TOOL_EMAIL}, context \in {CtxDelete, CtxRead} :
          Evaluate("e1", resource, "task", context)

SpecEval == InitEval /\ [][NextEval]_vars

-----------------------------------------------------------------------------
(* Resolver over a store whose first policy varies in activity, scoping,    *)
(* validity window and quota                                                *)

ResolvePolicy1(active, agents, roles, from, until, max) ==
    [DefaultPolicy("p1") EXCEPT !.effect = ALLOW, !.resources = <<TOOL_ALL>>,
                                !.is_active = active, !.agents = agents,
                                !.roles = roles, !.valid_from = from,
                                !.valid_until = until, !.max_calls = max]

ResolvePolicy2(agents, roles, priority) ==
    [DefaultPolicy("p2") EXCEPT !.effect = AUDIT, !.resources = <<TOOL_CRM>>,
                                !.agents = agents, !.roles = roles,
                                !.priority = priority]

ResolvePolicy3 ==
    [DefaultPolicy("p3") EXCEPT !.effect = DENY, !.resources = <<TOOL_CRM>>,
                                !.roles = {"r2"}, !.priority = 1]

InitResolve ==
    /\ InitSite
    /\ \E active \in BOOLEAN,
          agents \in {{}, {"a1"}, {"a2"}, {"a1", "a2"}},
          roles \in {{}, {"r1"}, {"r2"}},
          from \in {None, Some(1)}, until \in {None, Some(1)},
          max \in {None, Some(0), Some(1)},
          scope2 \in {<<{}, {}>>, <<{"a1", "a2"}, {"r1", "r2"}>>},
          priority2 \in {0, 1} :
          policies = [p \in PolicyIds |->
              CASE p = "p1" -> ResolvePolicy1(active, agents, roles, from, until, max)
                [] p = "p2" -> ResolvePolicy2(scope2[1], scope2[2], priority2)
                [] OTHER    -> ResolvePolicy3]
    /\ \E roles1 \in {{}, {"r1"}, {"r1", "r2"}} :
          agentRoles = [a \in Agents |-> IF a = "a1" THEN roles1 ELSE {}]
    /\ now = 0
    /\ evaluators = IdleEvaluators
    /\ auditLog = <<>>

NextResolve ==
    \/ \E agent \in Agents : Construct("e1", agent)
    \/ Evaluate("e1", TOOL_CRM, "task", CtxRead)
    \/ Tick

SpecResolve == InitResolve /\ [][NextResolve]_vars

-----------------------------------------------------------------------------
(* The resolver's list while the store changes under a live evaluator       *)

InitSnapshot ==
    /\ InitSite
    /\ \E until \in {None, Some(0)}, max \in {None, Some(1)}, active2 \in BOOLEAN :
          policies = [p \in PolicyIds |->
              CASE p = "p1" ->
                     [DefaultPolicy(p) EXCEPT !.effect = ALLOW,
                          !.resources = <<TOOL_ALL>>, !.priority = 1,
                          !.valid_until = until, !.max_calls = max]
                [] p = "p2" ->
                     [DefaultPolicy(p) EXCEPT !.effect = DENY,
                          !.resources = <<TOOL_CRM>>, !.priority = 5,
                          !.roles = {"r1"}, !.is_active = active2]
                [] OTHER ->
                     [DefaultPolicy(p) EXCEPT !.effect = AUDIT,
                          !.resources = <<TOOL_EMAIL>>, !.priority = 3,
                          !.is_active = FALSE]]
    /\ \E roles1 \in {{}, {"r1"}} :
          agentRoles = [a \in Agents |-> IF a = "a1" THEN roles1 ELSE {}]
    /\ now = 0
    /\ evaluators = IdleEvaluators
    /\ auditLog = <<>>

NextSnapshot ==
    \/ \E e \in EvalIds : Construct(e, "a1")
    \/ \E resource \in {TOOL_CRM, TOOL_EMAIL} : Evaluate("e1", resource, "task", CtxRead)
    \/ \E pk \in {"p2", "p3"}, is_active \in BOOLEAN :
          PolicyViewSet_partial_update(pk, is_active)
    \/ \E role_ids \in {{}, {"r1"}} :
          AgentViewSet_partial_update(Owner["a1"], "a1", "role_ids" :> role_ids)
    \/ Tick

SpecSnapshot == InitSnapshot /\ [][NextSnapshot]_vars

-----------------------------------------------------------------------------
(* The engine under concurrent requests: two evaluators over a store of     *)
(* global policies that differ in effect, quota, resources and priority     *)

QuotaPolicy(id, effect, max, resources, priority) ==
    [DefaultPolicy(id) EXCEPT !.effect = effect, !.max_calls = max,
                              !.resources = resources, !.priority = priority]

Init ==
    /\ InitSite
    /\ \E f1 \in {ALLOW, DENY, AUDIT}, m1 \in {None, Some(1), Some(2)},
          f2 \in {ALLOW, DENY}, m2 \in {None, Some(1)},
          r2 \in {<<TOOL_CRM>>, <<AGENT_EXECUTE>>}, q2 \in {0, 1} :
          policies = [p \in PolicyIds |->
              CASE p = "p1" -> QuotaPolicy(p, f1, m1, <<TOOL_ALL>>, 0)
                [] p = "p2" -> QuotaPolicy(p, f2, m2, r2, q2)
                [] OTHER    -> [DefaultPolicy(p) EXCEPT !.is_active = FALSE]]
    /\ agentRoles = [a \in Agents |-> IF a = "a1" THEN {"r1"} ELSE {}]
    /\ now = 0
    /\ evaluators = IdleEvaluators
    /\ auditLog = <<>>

Next ==
    \/ \E e \in EvalIds, agent \in Agents : Construct(e, agent)
    \/ \E e \in EvalIds : Evaluate(e, TOOL_CRM, "task", CtxRead)
    \/ Tick

Spec == Init /\ [][Next]_vars

-----------------------------------------------------------------------------
(* The engine with conditions of every kind, contexts that lack fields or   *)
(* hold malformed operands, and storage that fails                          *)

ErrorsConditionSets ==
    {{}} \cup { {c} : c \in DOMAIN Conditions }
         \cup {{"c_neq", "c_bad_regex"}, {"c_contains", "c_gt"},
               {"c_contains", "c_not_contains"}}

ErrorsContexts == {CtxDelete, CtxX, EmptyDict, CtxFlat, CtxNested}

InitErrors ==
    /\ InitSite
    /\ \E f1 \in {ALLOW, DENY, AUDIT}, cs1 \in ErrorsConditionSets,
          cs2 \in {{}, {"c_contains"}} :
          policies = [p \in PolicyIds |->
              CASE p = "p1" -> [DefaultPolicy(p) EXCEPT !.effect = f1, !.priority = 1,
                                    !.resources = <<TOOL_ALL>>, !.conditions = cs1]
                [] p = "p2" -> [DefaultPolicy(p) EXCEPT !.effect = ESCALATE,
                                    !.resources = <<TOOL_CRM>>, !.conditions = cs2]
                [] OTHER    -> [DefaultPolicy(p) EXCEPT !.is_active = FALSE]]
    /\ agentRoles = [a \in Agents |-> IF a = "a1" THEN {"r1"} ELSE {}]
    /\ now = 0
    /\ evaluators = IdleEvaluators
    /\ auditLog = <<>>

NextErrors ==
    \/ Construct("e1", "a1")
    \/ \E context \in ErrorsContexts :
          \/ Evaluate("e1", TOOL_CRM, "task", context)
          \/ EvaluateConditionRaises("e1", TOOL_CRM, "task", context)
          \/ EvaluateAuditWriteFails("e1", TOOL_CRM, "task", context)
          \/ EvaluateIncrementFails("e1", TOOL_CRM, "task", context)

SpecErrors == InitErrors /\ [][NextErrors]_vars

-----------------------------------------------------------------------------
(* The two endpoints: requests that carry any agent id, the resolver mode   *)
(* of the check view and the single-policy mode of the policy view          *)

InitViews ==
    /\ InitSite
    /\ \E f1 \in PolicyEffect, f2 \in {ALLOW, ESCALATE}, f3 \in {DENY, ESCALATE} :
          policies = [p \in PolicyIds |->
              CASE p = "p1" -> [DefaultPolicy(p) EXCEPT !.effect = f1, !.priority = 1,
                                    !.resources = <<TOOL_ALL>>]
                [] p = "p2" -> [DefaultPolicy(p) EXCEPT !.effect = f2,
                                    !.resources = <<TOOL_CRM>>]
                [] OTHER    -> [DefaultPolicy(p) EXCEPT !.effect = f3,
                                    !.resources = <<TOOL_CRM>>,
                                    !.agents = {"a2"},
                                    !.is_active = FALSE]]
    /\ agentRoles = [a \in Agents |-> IF a = "a1" THEN {"r1"} ELSE {}]
    /\ now = 0
    /\ evaluators = IdleEvaluators
    /\ auditLog = <<>>

NextViews ==
    \/ \E user \in Users, agent_id \in RequestAgentIds :
          PolicyCheckView_post("e1", user, agent_id)
    \/ \E pk \in PolicyIds, agent_id \in RequestAgentIds :
          PolicyViewSet_evaluate("e2", pk, agent_id)
    \/ \E e \in EvalIds, resource \in {TOOL_CRM, AGENT_EXECUTE} :
          Evaluate(e, resource, "task", CtxRead)

SpecViews == InitViews /\ [][NextViews]_vars

-----------------------------------------------------------------------------
(* The resource matcher over prefix patterns and resources with and without *)
(* the colon                                                                *)

MatchResources == {TOOL_CRM, TOOL_EMAIL, AGENT_EXECUTE, TOOLBOX}

InitMatch ==
    /\ InitSite
    /\ \E f1 \in PolicyEffect, pattern1 \in {TOOL_ALL, AGENT_ALL},
          resources2 \in {<<TOOL_EMAIL>>, <<AGENT_ALL>>} :
          policies = [p \in PolicyIds |->
              CASE p = "p1" -> [DefaultPolicy(p) EXCEPT !.effect = f1, !.priority = 1,
                                    !.resources = <<pattern1>>]
                [] p = "p2" -> [DefaultPolicy(p) EXCEPT !.effect = AUDIT,
                                    !.resources = resources2]
                [] OTHER    -> [DefaultPolicy(p) EXCEPT !.is_active = FALSE]]
    /\ agentRoles = [a \in Agents |-> IF a = "a1" THEN {"r1"} ELSE {}]
    /\ now = 0
    /\ evaluators = IdleEvaluators
    /\ auditLog = <<>>

NextMatch ==
    \/ Construct("e1", "a1")
    \/ \E resource \in MatchResources : Evaluate("e1", resource, "task", CtxRead)

SpecMatch == InitMatch /\ [][NextMatch]_vars

-----------------------------------------------------------------------------
(* Vocabulary of the properties *)

\* the policy passes the resource match and the condition match of a request
PolicyApplies(policy, request) ==
    /\ _resource_matches(policy.resources, request.resource)
    /\ _evaluate_conditions(policy, request.context)

\* the indices of the evaluator's list whose policy applies to its last request
ApplyingIndices(ev) ==
    { i \in DOMAIN ev.applicable_policies :
        PolicyApplies(ev.applicable_policies[i], ev.request) }

DenyingIndices(ev) ==
    { i \in ApplyingIndices(ev) : ev.applicable_policies[i].effect = DENY }

MinOf(S) == CHOOSE x \in S : \A y \in S : x <= y
MaxOf(S) == CHOOSE x \in S : \A y \in S : x >= y

DefaultResult == [decision |-> DENY, policy |-> None, reason |-> NoPolicyFound]
ResultOf(policy) ==
    [decision |-> policy.effect, policy |-> Some(policy.id),
     reason |-> AppliedReason(policy)]

-----------------------------------------------------------------------------
(* C1 - C4: the decision loop *)

\* C1: an evaluate call in which no policy of the applicable list passes both
\* the resource match and the condition match returns DENY, no matched policy
\* and the reason "No applicable policy found".
C1_FailClosedDefault ==
    \A e \in EvalIds :
        (evaluators[e].evals > 0 /\ ApplyingIndices(evaluators[e]) = {})
            => evaluators[e].result = DefaultResult

C1_Witness ==
    \E e \in EvalIds :
        /\ evaluators[e].evals > 0
        /\ Len(evaluators[e].applicable_policies) >= 2
        /\ \E i \in DOMAIN evaluators[e].applicable_policies :
              evaluators[e].applicable_policies[i].effect = ALLOW
        /\ ApplyingIndices(evaluators[e]) = {}
        /\ evaluators[e].result = DefaultResult

\* C2: the first policy of the list that applies with effect DENY ends the
\* loop: it is the last policy examined, the decision is DENY and it is the
\* matched policy, whatever applies after it.
C2_DenyShortCircuit ==
    \A e \in EvalIds :
        (evaluators[e].evals > 0 /\ DenyingIndices(evaluators[e]) # {}) =>
            LET ev == evaluators[e]
                d == MinOf(DenyingIndices(ev))
            IN  /\ ev.examined = d
                /\ ev.result.decision = DENY
                /\ ev.result.policy = Some(ev.applicable_policies[d].id)

C2_Witness ==
    \E e \in EvalIds :
        LET ev == evaluators[e]
        IN  /\ ev.evals > 0
            /\ DenyingIndices(ev) # {}
            /\ \E j \in ApplyingIndices(ev) :
                  /\ j > MinOf(DenyingIndices(ev))
                  /\ ev.applicable_policies[j].effect = ALLOW
            /\ ev.result.decision = DENY
            /\ ev.examined < Len(ev.applicable_policies)

\* exactly two policies of the list apply: one of priority 10 with effect hi,
\* one of priority 5 with effect lo
TwoApply(ev, hi, lo) ==
    \E A \in {ApplyingIndices(ev)} :
        /\ Cardinality(A) = 2
        /\ \E i, j \in A :
              /\ ev.applicable_policies[i].priority = 10
              /\ ev.applicable_policies[i].effect = hi
              /\ ev.applicable_policies[j].priority = 5
              /\ ev.applicable_policies[j].effect = lo

\* C3 as stated: ALLOW at priority 10 with DENY at priority 5 gives ALLOW, and
\* DENY at priority 10 with ALLOW at priority 5 gives DENY.
C3_AsStated ==
    \A e \in EvalIds :
        evaluators[e].evals > 0 =>
            /\ TwoApply(evaluators[e], ALLOW, DENY)
                  => evaluators[e].result.decision = ALLOW
            /\ TwoApply(evaluators[e], DENY, ALLOW)
                  => evaluators[e].result.decision = DENY

\* C3 amended: in both arrangements evaluate returns DENY, with the DENY
\* policy as the matched policy.
C3_DenyInBothOrders ==
    \A e \in EvalIds :
        LET ev == evaluators[e]
        IN  (ev.evals > 0 /\ (TwoApply(ev, ALLOW, DENY) \/ TwoApply(ev, DENY, ALLOW))) =>
                /\ ev.result.decision = DENY
                /\ \E d \in DenyingIndices(ev) :
                      ev.result.policy = Some(ev.applicable_policies[d].id)

C3_Witness ==
    \E e \in EvalIds :
        /\ evaluators[e].evals > 0
        /\ TwoApply(evaluators[e], ALLOW, DENY)
        /\ evaluators[e].result.decision = DENY

\* C4: the returned tuple is that of the first applying DENY policy if there
\* is one, else that of the last applying policy of the list, else the default.
C4_CombinationRule ==
    \A e \in EvalIds :
        evaluators[e].evals > 0 =>
            LET ev == evaluators[e]
                A == ApplyingIndices(ev)
                D == DenyingIndices(ev)
            IN  ev.result =
                    IF D # {} THEN ResultOf(ev.applicable_policies[MinOf(D)])
                    ELSE IF A # {} THEN ResultOf(ev.applicable_policies[MaxOf(A)])
                    ELSE DefaultResult

C4_Witness ==
    \E e \in EvalIds :
        LET ev == evaluators[e]
            A == ApplyingIndices(ev)
        IN  /\ ev.evals > 0
            /\ Cardinality(A) >= 2
            /\ DenyingIndices(ev) = {}
            /\ ev.applicable_policies[MinOf(A)].effect = ALLOW
            /\ ev.applicable_policies[MaxOf(A)].effect = AUDIT
            /\ ev.result.decision = AUDIT

-----------------------------------------------------------------------------
(* C5 - C8: the resolver and the validity check *)

\* the policies an evaluator's list holds
ListedIds(ev) == { ev.applicable_policies[i].id : i \in DOMAIN ev.applicable_policies }

\* the step that constructs evaluator e
Constructs(e) == evaluators[e].pc = "idle" /\ evaluators'[e].pc = "ready"

\* "currently valid" as the data model states it
CurrentlyValid(policy, t) ==
    /\ policy.is_active
    /\ (policy.valid_from = None \/ t >= policy.valid_from[1])
    /\ (policy.valid_until = None \/ t <= policy.valid_until[1])
    /\ (policy.max_calls = None \/ policy.calls_made < policy.max_calls[1])

IsGlobal(policy) == policy.agents = {} /\ policy.roles = {}

InScope(policy, agent) ==
    \/ agent \in policy.agents
    \/ agentRoles[agent] \cap policy.roles # {}
    \/ IsGlobal(policy)

\* C5: an active, currently valid policy with no agents and no roles is in the
\* list of every evaluator at its construction, whatever the agent's roles.
C5_GlobalIncluded ==
    [][ \A e \in EvalIds : Constructs(e) =>
          \A p \in PolicyIds :
              (IsGlobal(policies[p]) /\ CurrentlyValid(policies[p], now))
                  => p \in ListedIds(evaluators'[e]) ]_vars

C5_Witness ==
    \E e \in EvalIds :
        /\ evaluators[e].pc = "ready"
        /\ evaluators[e].evals = 0
        /\ agentRoles[evaluators[e].agent] = {}
        /\ \E p \in ListedIds(evaluators[e]) :
              IsGlobal(policies[p]) /\ CurrentlyValid(policies[p], now)
        /\ \E p \in PolicyIds \ ListedIds(evaluators[e]) : ~IsGlobal(policies[p])

\* C6: at construction for agent A the list holds exactly the policies that
\* are active, pass is_valid_now and are scoped to A, to a role of A or to
\* nobody, each once; the matched policy of an evaluation is always scoped so.
C6_ResolverExact ==
    [][ \A e \in EvalIds :
          /\ Constructs(e) =>
                LET ev == evaluators'[e]
                IN  /\ \A p \in PolicyIds :
                          p \in ListedIds(ev) <=>
                              /\ policies[p].is_active
                              /\ is_valid_now(policies[p], now)
                              /\ InScope(policies[p], ev.agent)
                    /\ \A i, j \in DOMAIN ev.applicable_policies :
                          ev.applicable_policies[i].id = ev.applicable_policies[j].id
                              => i = j
          /\ evaluators'[e].result.policy # None =>
                InScope(policies[evaluators'[e].result.policy[1]], evaluators'[e].agent)
      ]_vars

C6_Witness ==
    \E e \in EvalIds :
        LET ev == evaluators[e]
        IN  /\ ev.evals > 0
            /\ ev.result.policy # None
            /\ \E p \in ListedIds(ev) :
                  ev.agent \in policies[p].agents /\ policies[p].roles # {}
            /\ \E p \in PolicyIds \ ListedIds(ev) :
                  /\ policies[p].is_active /\ is_valid_now(policies[p], now)
                  /\ ~InScope(policies[p], ev.agent)

\* C7: is_valid_now is true exactly when the policy is active, now is inside
\* the validity window (bounds included) and the quota, if set, is not used up.
C7_ValidityPredicate ==
    \A p \in PolicyIds :
        is_valid_now(policies[p], now) <=> CurrentlyValid(policies[p], now)

\* C8: the list of a newly constructed evaluator holds no policy whose quota
\* is set and used up (calls_made >= max_calls).
C8_ExhaustedExcluded ==
    \A e \in EvalIds :
        (evaluators[e].pc = "ready" /\ evaluators[e].evals = 0) =>
            \A i \in DOMAIN evaluators[e].applicable_policies :
                LET policy == evaluators[e].applicable_policies[i]
                IN  policy.max_calls # None => policy.calls_made < policy.max_calls[1]

-----------------------------------------------------------------------------
(* C9 - C10: the quota *)

\* the step in which evaluator e runs evaluate
Evaluates(e) == evaluators'[e].evals = evaluators[e].evals + 1

\* p is an ALLOW policy with max_calls = 1
AllowOnce(p) == policies[p].effect = ALLOW /\ policies[p].max_calls = Some(1)

\* p is the only active policy of the store that applies to the request
OnlyApplying(p, request) ==
    /\ PolicyApplies(policies[p], request)
    /\ \A q \in PolicyIds \ {p} :
          ~(policies[q].is_active /\ PolicyApplies(policies[q], request))

\* C9: with a single applying ALLOW policy of max_calls = 1 and calls_made = 0,
\* an evaluate through an evaluator that holds it returns ALLOW and stores
\* calls_made = 1; an evaluator constructed once calls_made = 1 is stored does
\* not hold the policy, and its evaluate returns the default DENY.
C9_QuotaConsumed ==
    [][ \A e \in EvalIds, p \in PolicyIds :
          AllowOnce(p) =>
              /\ ( /\ Evaluates(e)
                   /\ policies[p].calls_made = 0
                   /\ p \in ListedIds(evaluators[e])
                   /\ OnlyApplying(p, evaluators'[e].request) )
                    => /\ evaluators'[e].result = ResultOf(policies[p])
                       /\ policies'[p].calls_made = 1
              /\ (Constructs(e) /\ policies[p].calls_made = 1)
                    => p \notin ListedIds(evaluators'[e])
              /\ ( /\ Evaluates(e)
                   /\ evaluators[e].evals = 0
                   /\ policies[p].calls_made = 1
                   /\ p \notin ListedIds(evaluators[e])
                   /\ OnlyApplying(p, evaluators'[e].request) )
                    => /\ evaluators'[e].result = DefaultResult
                       /\ policies'[p].calls_made = 1
      ]_vars

C9_Witness ==
    \E e1, e2 \in EvalIds, p \in PolicyIds :
        /\ e1 # e2
        /\ AllowOnce(p)
        /\ evaluators[e1].evals = 1
        /\ evaluators[e1].result = ResultOf(policies[p])
        /\ evaluators[e2].evals = 1
        /\ p \notin ListedIds(evaluators[e2])
        /\ OnlyApplying(p, evaluators[e2].request)
        /\ evaluators[e2].result = DefaultResult
        /\ policies[p].calls_made = 1

\* the evaluations the audit log records as an ALLOW or DENY of policy p
Applications(p) ==
    { i \in DOMAIN auditLog :
        auditLog[i].policy = Some(p) /\ auditLog[i].decision \in {ALLOW, DENY} }

\* C10: a policy with max_calls set is applied as an ALLOW / DENY decision at
\* most max_calls times, and its stored calls_made never exceeds max_calls.
C10_QuotaIsCap ==
    \A p \in PolicyIds :
        policies[p].max_calls # None =>
            /\ policies[p].calls_made <= policies[p].max_calls[1]
            /\ Cardinality(Applications(p)) <= policies[p].max_calls[1]

-----------------------------------------------------------------------------
(* C11 - C14: quota accounting, audit log, concurrency, resolution order *)

\* a Policy row without its counter
OtherFields(policy) == [policy EXCEPT !.calls_made = 0]

\* C11: an evaluate call raises the stored calls_made of the returned matched
\* policy by exactly 1 when the decision is ALLOW or DENY, changes no
\* calls_made otherwise, and leaves the calls_made of every other policy and
\* every other field of every policy as they were.
C11_QuotaAccounting ==
    [][ \A e \in EvalIds : Evaluates(e) =>
          LET res == evaluators'[e].result
              counted == res.policy # None /\ res.decision \in {ALLOW, DENY}
          IN  \A p \in PolicyIds :
                  /\ OtherFields(policies'[p]) = OtherFields(policies[p])
                  /\ policies'[p].calls_made =
                        IF counted /\ res.policy = Some(p)
                        THEN policies[p].calls_made + 1
                        ELSE policies[p].calls_made ]_vars

\* C12: every evaluate call that returns appends exactly one entry to the
\* audit log, the entries already there stay as they are, and the decision of
\* the new entry is the decision returned.
C12_AuditComplete ==
    [][ \A e \in EvalIds : Evaluates(e) =>
          /\ Len(auditLog') = Len(auditLog) + 1
          /\ SubSeq(auditLog', 1, Len(auditLog)) = auditLog
          /\ auditLog'[Len(auditLog')].decision = evaluators'[e].result.decision
      ]_vars

C12_Witness ==
    /\ Len(auditLog) = 2
    /\ evaluators["e1"].evals = 2
    /\ auditLog[1].decision = ESCALATE
    /\ auditLog[2].decision = DENY
    /\ auditLog[2].policy = None
    /\ evaluators["e1"].result = DefaultResult

\* C13: when every evaluation ran through an evaluator of its own, the stored
\* calls_made of a policy is the number of evaluations that ended with that
\* policy applied and the decision ALLOW or DENY.
C13_NoLostIncrement ==
    (\A e \in EvalIds : evaluators[e].evals <= 1) =>
        \A p \in PolicyIds : policies[p].calls_made = Cardinality(Applications(p))

\* the tuple evaluate returns from the locals the loop leaves
Returned(applicable_policies, out) ==
    [decision |-> out.decision,
     policy |-> IF out.applying = 0 THEN None
                ELSE Some(applicable_policies[out.applying].id),
     reason |-> out.reason]

\* both evaluators were constructed for the same agent from the store as it
\* was initially, and neither has evaluated yet
SameConstruction(e1, e2) ==
    /\ evaluators[e1].pc = "ready" /\ evaluators[e2].pc = "ready"
    /\ evaluators[e1].evals = 0 /\ evaluators[e2].evals = 0
    /\ evaluators[e1].agent = evaluators[e2].agent
    /\ auditLog = <<>>
    /\ now = 0

\* C14: two evaluators constructed for the same agent against the same store
\* hold the same list in the same order, and an evaluate on one returns what
\* the same evaluate on the other would return.
C14_DeterministicOrder ==
    [][ \A e1, e2 \in EvalIds : SameConstruction(e1, e2) =>
          /\ evaluators[e1].applicable_policies = evaluators[e2].applicable_policies
          /\ Evaluates(e1) =>
                evaluators'[e1].result =
                    Returned(evaluators[e2].applicable_policies,
                             EvalLoop(evaluators[e2].applicable_policies, 1,
                                      evaluators'[e1].request.resource,
                                      evaluators'[e1].request.context,
                                      InitialDecision))
      ]_vars

-----------------------------------------------------------------------------
(* C15, C17, C18: failures *)

\* C15: when the audit write or the quota increment fails during evaluate,
\* the caller still gets the decision the loop computed.
C15_DecisionSurvivesStorageFailure ==
    \A e \in EvalIds :
        evaluators[e].error = Some(DatabaseError) =>
            evaluators[e].result.decision \in PolicyEffect

\* C17: no failure of a condition check leaves evaluate: a malformed operand
\* or pattern makes the condition a non-match and the call returns.
C17_FailClosedConditions ==
    \A e \in EvalIds :
        /\ evaluators[e].error # Some(re_error)
        /\ evaluators[e].pc \in {"ready", "raised"} =>
              \A i \in DOMAIN evaluators[e].applicable_policies :
                  ~ConditionsMayRaise(evaluators[e].applicable_policies[i],
                                      evaluators[e].request.context)

\* the operators that hold of a value that is not there
NegativeOperators == {"neq", "not_contains", "not_in"}

\* the conditions of listed policy i whose field the last request lacks
MissingConditions(ev, i) ==
    { c \in policies[ev.applicable_policies[i].id].conditions :
        FieldMissing(c, ev.request.context) }

\* C18: a policy with a condition whose dot-path meets a missing key or a
\* value that is no mapping is not the matched policy of the evaluation,
\* whatever the operator of the condition.
C18_MissingFieldNoMatch ==
    \A e \in EvalIds :
        evaluators[e].evals > 0 =>
            \A i \in DOMAIN evaluators[e].applicable_policies :
                MissingConditions(evaluators[e], i) # {} =>
                    evaluators[e].result.policy #
                        Some(evaluators[e].applicable_policies[i].id)

C18_Witness ==
    \E e \in EvalIds :
        LET ev == evaluators[e]
        IN  /\ ev.evals = 2
            /\ auditLog[1].request_data = EmptyDict
            /\ auditLog[1].policy # Some(ev.applicable_policies[1].id)
            /\ ev.request.context = CtxFlat
            /\ ev.applicable_policies[1].effect = ALLOW
            /\ "c_nested_neq" \in MissingConditions(ev, 1)
            /\ _resource_matches(ev.applicable_policies[1].resources,
                                 ev.request.resource)
            /\ ev.result.policy # Some(ev.applicable_policies[1].id)

-----------------------------------------------------------------------------
(* C16, C19, C20: the endpoints, prefix patterns, the range of decisions *)

\* the step in which the request of e, which carries an agent id, is answered
\* without an evaluator
RejectsAgentId(e) ==
    /\ evaluators[e].pc = "idle"
    /\ evaluators'[e].pc = "rejected"
    /\ evaluators'[e].agent # NULL

\* C16: a request to either endpoint whose agent id resolves to no agent is
\* answered with the not-found error, without an evaluator, without an audit
\* entry and without a change to any policy; an evaluator is constructed only
\* for an agent.
C16_SubjectNotFound ==
    [][ \A e \in EvalIds :
          /\ RejectsAgentId(e) =>
                /\ evaluators'[e].error = Some(HTTP_404_NOT_FOUND)
                /\ evaluators'[e].applicable_policies = <<>>
                /\ auditLog' = auditLog
                /\ policies' = policies
          /\ Constructs(e) => evaluators'[e].agent \in Agents
      ]_vars

\* the pattern without its trailing "*"
PrefixOf(pattern) == SubSeq(pattern, 1, Len(pattern) - 1)

\* C19: for a policy whose resources are one pattern ending in ":*", the
\* resource match of an evaluation is true exactly when the requested
\* resource starts with the pattern without its trailing "*".
C19_PrefixWildcard ==
    \A e \in EvalIds :
        evaluators[e].evals > 0 =>
            \A i \in DOMAIN evaluators[e].applicable_policies :
                LET patterns == evaluators[e].applicable_policies[i].resources
                    requested == evaluators[e].request.resource
                IN  (Len(patterns) = 1 /\ EndsWith(patterns[1], <<":", "*">>)) =>
                        (_resource_matches(patterns, requested)
                            <=> StartsWith(requested, PrefixOf(patterns[1])))

\* C20: the decision every evaluate returns, and the decision of every audit
\* entry, is one of ALLOW, DENY, AUDIT, ESCALATE, in the resolver mode and in
\* the single-policy mode.
C20_DecisionIsEffect ==
    /\ \A e \in EvalIds :
          evaluators[e].evals > 0 => evaluators[e].result.decision \in PolicyEffect
    /\ \A i \in DOMAIN auditLog : auditLog[i].decision \in PolicyEffect

C20_Witness ==
    /\ evaluators["e1"].evals > 0
    /\ Len(evaluators["e1"].applicable_policies) = 2
    /\ evaluators["e1"].result.decision = ALLOW
    /\ evaluators["e2"].evals = 2
    /\ Len(evaluators["e2"].applicable_policies) = 1
    /\ ~evaluators["e2"].applicable_policies[1].is_active
    /\ evaluators["e2"].result = DefaultResult
    /\ \E i \in DOMAIN auditLog :
          auditLog[i].decision = ESCALATE /\ auditLog[i].policy = Some("p3")

-----------------------------------------------------------------------------
(* C21 - C23: single-policy mode, resolver snapshot, append-only audit log *)

\* the requests of this handle go through PolicyViewSet.evaluate
SinglePolicyHandle == "e2"

\* C21: an evaluate in single-policy mode returns the tuple of the supplied
\* policy if its resource patterns and conditions match the request and the
\* default DENY otherwise, whatever else the store holds and whatever the
\* scoping and state of the supplied policy, and writes one audit entry.
C21_SinglePolicyMode ==
    [][ Evaluates(SinglePolicyHandle) =>
          LET ev == evaluators'[SinglePolicyHandle]
              supplied == evaluators[SinglePolicyHandle].applicable_policies[1]
          IN  /\ Len(evaluators[SinglePolicyHandle].applicable_policies) = 1
              /\ ev.result = IF PolicyApplies(supplied, ev.request)
                              THEN ResultOf(supplied)
                              ELSE DefaultResult
              /\ Len(auditLog') = Len(auditLog) + 1
              /\ auditLog'[Len(auditLog')].decision = ev.result.decision
              /\ auditLog'[Len(auditLog')].policy = ev.result.policy
      ]_vars

C21_Witness ==
    LET ev == evaluators[SinglePolicyHandle]
    IN  /\ ev.evals = 1
        /\ ev.agent = "a1"
        /\ ev.applicable_policies[1].id = "p3"
        /\ "a1" \notin policies["p3"].agents
        /\ ~policies["p3"].is_active
        /\ ev.result.decision = ESCALATE
        /\ ev.result.policy = Some("p3")
        /\ policies["p1"].effect = DENY
        /\ PolicyApplies(policies["p1"], ev.request)
        /\ Len(auditLog) = 1


\* the ids of a list of policies, in order
Ids(applicable_policies) ==
    [i \in 1..Len(applicable_policies) |-> applicable_policies[i].id]

\* the store no longer returns this policy for the agent
NoLongerApplicable(p, agent) ==
    \A list \in _get_applicable_policies(agent) :
        \A i \in 1..Len(list) : list[i].id # p

\* C22: an evaluator's list is computed at construction and then stays: no
\* step of a constructed evaluator or of the store (a policy deactivated or
\* activated, expired, its quota used up, the agent's roles replaced) changes
\* which policies it holds, in which order and with which fields other than
\* the call count of the one it applied; evaluate decides from the list held
\* before the call; and an evaluator constructed now holds what the store
\* returns now.
C22_ResolverSnapshot ==
    [][ \A e \in EvalIds :
          /\ evaluators[e].pc = "ready" =>
                /\ Ids(evaluators'[e].applicable_policies)
                      = Ids(evaluators[e].applicable_policies)
                /\ \A i \in 1..Len(evaluators[e].applicable_policies) :
                      OtherFields(evaluators'[e].applicable_policies[i])
                          = OtherFields(evaluators[e].applicable_policies[i])
          /\ Evaluates(e) =>
                LET held == evaluators[e].applicable_policies
                    request == evaluators'[e].request
                IN  evaluators'[e].result = Returned(held,
                        EvalLoop(held, 1, request.resource, request.context,
                                 InitialDecision))
          /\ Constructs(e) =>
                evaluators'[e].applicable_policies
                    \in _get_applicable_policies(evaluators'[e].agent) ]_vars

\* an evaluator applied a policy on its second call although the store would
\* no longer list that policy, while one constructed later does not hold it
C22_Witness ==
    /\ evaluators["e1"].evals = 2
    /\ evaluators["e1"].result.policy = Some("p2")
    /\ ~policies["p2"].is_active
    /\ agentRoles["a1"] = {}
    /\ NoLongerApplicable("p2", "a1")
    /\ evaluators["e2"].pc = "ready"
    /\ "p2" \notin ListedIds(evaluators["e2"])
    /\ "p1" \in ListedIds(evaluators["e1"])
    /\ NoLongerApplicable("p1", "a1")


\* C23: the audit log is append-only: every step leaves the entries already
\* written in place and unchanged in every field, and an evaluation, in
\* resolver mode or in single-policy mode, adds exactly one entry after them.
C23_AuditAppendOnly ==
    [][ /\ Len(auditLog') >= Len(auditLog)
        /\ SubSeq(auditLog', 1, Len(auditLog)) = auditLog
        /\ \A e \in EvalIds :
              Evaluates(e) => Len(auditLog') = Len(auditLog) + 1 ]_vars

\* a resolver-mode entry followed by a different single-policy entry, then by
\* a further entry
C23_Witness ==
    /\ Len(auditLog) = 3
    /\ auditLog[1].agent = evaluators["e1"].agent
    /\ evaluators["e1"].evals >= 1
    /\ evaluators[SinglePolicyHandle].evals >= 1
    /\ auditLog[2].agent = evaluators[SinglePolicyHandle].agent
    /\ auditLog[2].policy = Some("p3")
    /\ auditLog[1].decision # auditLog[2].decision
    /\ auditLog[1].resource # auditLog[2].resource


(* C24: seeding *)

\* C24: a run of default_policies leaves every row that existed as it was; a
\* production run leaves the store as it is; after any other run each default
\* name exists exactly once, the rows added are the defaults, and a further
\* run could only leave the store as it is.
C24_SeedingIdempotent ==
    [][ \A env \in Envs :
          Command_handle(env) =>
            /\ \A pk \in DOMAIN policies :
                  pk \in DOMAIN policies' /\ policies'[pk] = policies[pk]
            /\ IF env = "production" THEN policies' = policies
               ELSE /\ \A name \in DefaultNames :
                          Cardinality(RowsNamed(policies', name)) = 1
                    /\ \A pk \in DOMAIN policies' \ DOMAIN policies :
                          \E i \in 1..Len(DEFAULT_POLICIES) :
                              policies'[pk] = CreatedRow(pk, DEFAULT_POLICIES[i])
                    /\ \A again \in SeedResults(policies') :
                          again.table = policies' /\ again.created_count = 0 ]_vars

\* a run created two of the defaults next to an edited row of the third name,
\* which it left as edited
C24_Witness ==
    /\ response.handler = "default_policies"
    /\ response.created_count = 2
    /\ \A name \in DefaultNames : Cardinality(RowsNamed(policies, name)) = 1
    /\ \E pk \in DOMAIN policies :
          policies[pk].name \in DefaultNames /\ policies[pk].effect = DENY
    /\ Cardinality(DOMAIN policies) = 4


(* C25: owner-only modification of agents *)

\* the step is this request being answered
Answers(r) == response' = r /\ response' # response

\* C25: an agent's name and status change only in a step that answers 200 to
\* a modifying request of the agent's owner on that agent; a modifying
\* request of anyone else is answered 403 and leaves every agent as it was; a
\* read is answered 200 whoever asks; the owner's pause leaves status PAUSED
\* and the owner's resume leaves status RUNNING.
C25_OwnerOnlyModification ==
    [][ /\ \A a \in Agents :
              agentRows'[a] # agentRows[a] =>
                  /\ response'.pk = a /\ response'.user = Owner[a]
                  /\ response'.method \notin SAFE_METHODS
                  /\ response'.status = HTTP_200_OK
        /\ \A user \in Users, pk \in Agents :
              /\ user # Owner[pk] =>
                    /\ \A data \in PatchData :
                          AgentViewSet_partial_update(user, pk, data) =>
                              /\ response'.status = HTTP_403_FORBIDDEN
                              /\ agentRows' = agentRows /\ agentRoles' = agentRoles
                    /\ AgentViewSet_pause(user, pk) \/ AgentViewSet_resume(user, pk) =>
                              /\ response'.status = HTTP_403_FORBIDDEN
                              /\ agentRows' = agentRows
              /\ ENABLED AgentViewSet_retrieve(user, pk)
              /\ AgentViewSet_retrieve(user, pk) =>
                    response'.status = HTTP_200_OK /\ agentRows' = agentRows
              /\ user = Owner[pk] =>
                    /\ AgentViewSet_pause(user, pk) =>
                          agentRows'[pk] = [agentRows[pk] EXCEPT !.status = PAUSED]
                    /\ AgentViewSet_resume(user, pk) =>
                          agentRows'[pk] = [agentRows[pk] EXCEPT !.status = RUNNING] ]_vars

\* the owner renamed and paused one agent and resumed it, the other agent is
\* as it started, and the last request, a non-owner's pause, was answered 403
C25_Witness ==
    /\ agentRows["a1"] = [name |-> "Worker", status |-> RUNNING]
    /\ agentRows["a2"] = [name |-> "a2", status |-> ERRORED]
    /\ response = AgentResponse("pause", "POST", "u1", "a2", HTTP_403_FORBIDDEN)


(* C26 - C27: condition combination, contains and not_contains *)

\* condition c has a present field value and its operator test succeeds
ConditionHolds(c, context) ==
    LET value == _get_nested_value(context, Conditions[c].field)
    IN  /\ value # VNone
        /\ _evaluate_operator_raises(Conditions[c].operator, value,
                                     Conditions[c].value) = None
        /\ _evaluate_operator(Conditions[c].operator, value, Conditions[c].value)

\* every condition the store holds for the policy does
Conjunction(policy, context) ==
    \A c \in policies[policy.id].conditions : ConditionHolds(c, context)

\* the examined policies of the last request whose resources match and whose
\* conditions all hold
Conjoined(ev) ==
    { i \in 1..ev.examined :
        /\ _resource_matches(ev.applicable_policies[i].resources, ev.request.resource)
        /\ Conjunction(ev.applicable_policies[i], ev.request.context) }

\* C26: the condition check is the conjunction of the policy's conditions: of
\* the policies a returned evaluation examined, the matched one is the last
\* whose resources match and whose conditions, none or several, all have a
\* present value and a successful test; one absent or failing condition keeps
\* a policy from being matched, whichever condition is met first.
C26_ConditionsConjunction ==
    \A e \in EvalIds :
        evaluators[e].evals > 0 /\ evaluators[e].pc = "ready" =>
            LET ev == evaluators[e]
            IN  ev.result.policy =
                    IF Conjoined(ev) = {} THEN None
                    ELSE Some(ev.applicable_policies[MaxOf(Conjoined(ev))].id)

\* a policy with two conditions, one that holds of the request and one that
\* fails, was examined and not matched, the policy without conditions was
C26_Witness ==
    LET ev == evaluators["e1"]
    IN  /\ ev.evals > 0 /\ ev.examined = 2
        /\ ev.applicable_policies[1].id = "p1"
        /\ policies["p1"].conditions = {"c_contains", "c_not_contains"}
        /\ ~ConditionHolds("c_contains", ev.request.context)
        /\ ConditionHolds("c_not_contains", ev.request.context)
        /\ policies["p2"].conditions = {}
        /\ ev.result.policy = Some("p2")


\* right is a member of the list left, or a substring of the string left
Member(right, left) ==
    IF left.kind = "str" THEN right.kind = "str" /\ IsSubstring(right.val, left.val)
    ELSE \E i \in 1..Len(left.val) : left.val[i] = right

\* the last call tested this operator
Tested(operator) ==
    response.handler = "_evaluate_operator" /\ response.operator = operator

\* C27 as stated: with a string or list on the left, contains is true iff the
\* right operand is a member or substring of it and not_contains is the exact
\* negation; with any other left value contains is a non-match and
\* not_contains a match.
C27_AsStated ==
    /\ Tested("contains") =>
          response.value = IF response.left.kind \in {"str", "list"}
                           THEN Member(response.right, response.left) ELSE FALSE
    /\ Tested("not_contains") =>
          response.value = IF response.left.kind \in {"str", "list"}
                           THEN ~Member(response.right, response.left) ELSE TRUE

\* Python can test the membership: any value in a list, a string in a string
MembershipDefined(right, left) ==
    left.kind = "list" \/ (left.kind = "str" /\ right.kind = "str")

\* C27: where the membership test is defined (left a list, or left and right
\* both strings) contains is true iff right is a member or substring of left
\* and not_contains is its negation; with a string on the left and a right
\* operand that is no string both are non-matches; with a left value that is
\* neither string nor list contains is a non-match and not_contains a match.
C27_ContainsSemantics ==
    /\ Tested("contains") =>
          response.value =
              IF MembershipDefined(response.right, response.left)
              THEN Member(response.right, response.left) ELSE FALSE
    /\ Tested("not_contains") =>
          response.value =
              IF MembershipDefined(response.right, response.left)
              THEN ~Member(response.right, response.left)
              ELSE response.left.kind # "str"

\* not_contains of a number in a string was a non-match
C27_Witness ==
    /\ Tested("not_contains")
    /\ response.left = VStr(PLEASE_DELETE) /\ response.right = VNum(5)
    /\ ~response.value


(* C28 - C29: the policy gates *)

\* the step calls the wrapped view once for this request
ViewRuns(request) ==
    invoked' = Append(invoked, [callee |-> "view_func", user |-> request.user])

\* C28: for a request that carries an agent identity, in auth or in user,
\* the wrapper evaluates once and the view runs iff the decision is not DENY:
\* ALLOW, AUDIT and ESCALATE reach the view, DENY raises PermissionDenied
\* without a call of the view. For a request without agent identity the view
\* runs and no evaluator, audit entry or call count changes. (Every step
\* that records an enforce_policy response is one call of the wrapper.)
C28_EnforcePolicyGate ==
    [][ response'.handler = "enforce_policy" /\ response'.request \in GateRequests =>
          LET request == response'.request
          IN  IF GateAgent(request) # NULL
              THEN \E e \in EvalIds :
                      LET decision == evaluators'[e].result.decision
                      IN  /\ Constructs(e) /\ Evaluates(e)
                          /\ evaluators'[e].agent = GateAgent(request)
                          /\ Len(auditLog') = Len(auditLog) + 1
                          /\ decision \in PolicyEffect
                          /\ response'.decision = Some(decision)
                          /\ ViewRuns(request) <=> decision # DENY
                          /\ decision = DENY =>
                                /\ invoked' = invoked
                                /\ response'.raised = Some(PermissionDenied)
                          /\ decision # DENY => response'.raised = None
              ELSE /\ ViewRuns(request)
                   /\ UNCHANGED <<evaluators, auditLog, policies>> ]_vars

\* the view ran for a request without agent identity, then for an agent whose
\* decision was ESCALATE, and was refused to an agent whose decision was DENY
C28_Witness ==
    /\ Len(invoked) = 2 /\ invoked[1].user = "u1" /\ invoked[2].user = "a1"
    /\ evaluators["e1"].result.decision = ESCALATE
    /\ evaluators["e1"].agent = "a1"
    /\ evaluators["e2"].result.decision = DENY
    /\ evaluators["e2"].agent = "a2"
    /\ response.raised = Some(PermissionDenied)
    /\ Len(auditLog) = 2


\* the call counts of the store
CallsMade(table) == [p \in DOMAIN table |-> table[p].calls_made]

\* C29: in both execution endpoints a conversation, a message or a call of
\* the executor comes only in a step whose policy check on 'agent:execute'
\* returned a decision other than DENY. A request whose decision is DENY is
\* answered 403 and leaves conversations, messages and the executor alone:
\* its only changes are one audit entry and the call count of the policy
\* that denied.
C29_GateBeforeExecution ==
    [][ /\ <<conversations, messages, invoked>>' # <<conversations, messages, invoked>> =>
              \E e \in EvalIds :
                  /\ Evaluates(e)
                  /\ evaluators'[e].request.resource = AGENT_EXECUTE
                  /\ evaluators'[e].result.decision # DENY
                  /\ response'.decision # None
        /\ \A e \in EvalIds :
              Evaluates(e) /\ evaluators'[e].result.decision = DENY =>
                  /\ response'.status = HTTP_403_FORBIDDEN
                  /\ UNCHANGED <<conversations, messages, invoked, agentRows,
                                 sessions, agentRoles, now>>
                  /\ Len(auditLog') = Len(auditLog) + 1
                  /\ auditLog'[Len(auditLog')].decision = DENY
                  /\ \A p \in PolicyIds :
                        /\ OtherFields(policies'[p]) = OtherFields(policies[p])
                        /\ policies'[p].calls_made # policies[p].calls_made =>
                              evaluators'[e].result.policy = Some(p) ]_vars

\* a task was executed and stored, and a later task of the same agent was
\* denied with 403: one conversation, two messages, one call of the executor
C29_Witness ==
    /\ response = ExecResponse("execute", "u1", HTTP_403_FORBIDDEN, Some(DENY))
    /\ Len(conversations) = 1 /\ conversations[1].status = "COMPLETED"
    /\ Len(messages) = 2 /\ Len(invoked) = 1
    /\ Len(auditLog) = 2
    /\ auditLog[1].decision = ALLOW /\ auditLog[2].decision = DENY


(* C30: sessions *)

\* the session was revoked or its expires_at has passed
Dead(jti) ==
    /\ jti \in DOMAIN sessions
    /\ sessions[jti].revoked_at # None \/ now >= sessions[jti].expires_at

\* C30: a session stays in the table with the expiry it was given, and a
\* revocation stays as written; an authentication with a jti succeeds exactly
\* when its session exists, is unrevoked and unexpired; so once a session is
\* revoked or expired, every later authentication and logout with its jti is
\* refused and changes nothing, and the session is revoked or expired ever
\* after.
C30_RevocationPermanent ==
    [][ /\ \A jti \in DOMAIN sessions :
              /\ jti \in DOMAIN sessions'
              /\ sessions'[jti].expires_at = sessions[jti].expires_at
              /\ sessions'[jti].agent = sessions[jti].agent
              /\ sessions[jti].revoked_at # None =>
                    sessions'[jti].revoked_at = sessions[jti].revoked_at
              /\ Dead(jti) => Dead(jti)'
        /\ \A jti \in Jtis :
              /\ AgentAuthentication_authenticate(jti) =>
                    (response'.status = HTTP_200_OK <=>
                        /\ jti \in DOMAIN sessions
                        /\ sessions[jti].revoked_at = None
                        /\ now < sessions[jti].expires_at)
              /\ Dead(jti) /\ (\/ AgentAuthentication_authenticate(jti)
                               \/ AgentLogoutView_post(jti)) =>
                    /\ response'.status = HTTP_401_UNAUTHORIZED
                    /\ sessions' = sessions ]_vars

\* one session was used, revoked by logout and then refused while its expiry
\* still lay ahead; the other was never revoked and expired
C30_Witness ==
    /\ DOMAIN sessions = Jtis
    /\ sessions["j1"].revoked_at = Some(0) /\ sessions["j1"].expires_at = 1
    /\ sessions["j2"].revoked_at = None /\ sessions["j2"].expires_at = 2
    /\ sessions["j2"].last_activity = 1
    /\ now = 2
    /\ response = GatewayResponse("authenticate", "j2", HTTP_401_UNAUTHORIZED)

====
